---- MODULE Spec2Model ----
(***************************************************************************)
(* Model of the eodini domain layer: the Trip lifecycle                    *)
(* (internal/domain/route.go, Trip), the Schedule calendar matcher         *)
(* (domain/schedule, Schedule.IsActiveOnDate), the DriverAssignment        *)
(* override and the trip generation loop sketched in the architecture      *)
(* document (TripService.CreateTripForDate).                               *)
(*                                                                         *)
(* Time: a time.Time is an integer number of ticks; TicksPerDay ticks make *)
(* one calendar day, so tick t lies on day t \div TicksPerDay at           *)
(* time-of-day t % TicksPerDay.  Day 0 is a Monday.  A nil *time.Time is   *)
(* NoTime, a nil *Location / *string is "nil", a nil error is "nil".       *)
(***************************************************************************)
EXTENDS Integers, Sequences, FiniteSets, TLC

VARIABLES
    \* ---- one Trip under lifecycle calls (SpecTrip)
    trip,        \* the Trip entity
    now,         \* the last reading of time.Now()
    lastOp,      \* the lifecycle method called last ("NewTrip" after construction)
    lastErr,     \* the error it returned ("nil": success)
    lastArgs,    \* the arguments it was called with
    path,        \* the statuses the trip went through, in order
    duration,    \* what GetDuration returned, when it was the last call (0 otherwise)
    \* ---- one Schedule under its setters and queries (SpecSchedule)
    sched,       \* the Schedule entity
    qDate,       \* the date of the last IsActiveOnDate call (NoTime: none since the last change)
    qResult,     \* what that call returned
    \* ---- trip generation (SpecGen)
    schedules,   \* the schedule snapshot: schedule id -> Schedule
    assignments, \* the override snapshot: a set of DriverAssignment
    tripStore,   \* the persisted trips, in insertion order
    pc,          \* per invocation: "idle" | "loop" | "done"
    runDate,     \* per invocation: the date it generates for
    runList,     \* per invocation: the schedules GetActiveSchedules returned
    runIdx,      \* per invocation: the position of the range loop
    runExisting, \* per invocation: the schedule ids that had a trip for the date when it began
    runCreated,  \* per invocation: the schedule ids whose Create the store accepted
    runRejected, \* per invocation: the schedule ids whose Create the store rejected
    runSkipped,  \* per invocation: the skipped list it reports
    runWarnings, \* per invocation: the warnings it surfaces to its caller
    runs,        \* invocations started so far
    changes,     \* changes made to schedules and overrides so far
    \* ---- one DriverAssignment under its period methods and queries (SpecAssign)
    da,          \* the DriverAssignment entity
    aOp,         \* the method called last ("NewDriverAssignment" after construction)
    aArg,        \* its date argument (NoTime: none)
    aErr,        \* the error it returned ("nil": success or no error result)
    aResult,     \* what IsActiveOnDate returned, when it was the last call
    aDriver,     \* the driver resolved, when resolution was the last call
    \* ---- several callers of one Trip under a per-trip lock (SpecCallers)
    holder,      \* the caller holding the trip's lock (0: free)
    cpc,         \* per caller: "idle" | "waiting" | "locked" | "done"
    creq,        \* per caller: the method it calls
    cok,         \* per caller: what the method's status check read
    cres,        \* per caller: the error its call returned ("": not returned yet)
    \* ---- the message registry and a caller holding a returned map (SpecMessages)
    heap,        \* the maps in memory: heap[1] is the package variable messages
    held,        \* the map GetAllMessages returned to the caller (0: none yet)
    mOp,         \* the call made last on the registry or on the held map
    mKey,        \* its key argument ("": none)
    mResult,     \* what GetMessage returned, when it was the last call
    \* ---- the process environment and config.Load (SpecConfig)
    env,         \* the environment variables that are set, with their values
    cfg,         \* the *Config the last Load returned (<< >>: nil)
    cfgErr,      \* the error the last Load returned ("nil": none)
    cfgOp,       \* the call made last on the environment or the package
    \* ---- the router, its middleware chain and the requests served (SpecHttp)
    cors,        \* the CORSConfig the router's CORS middleware was built with
    exchanges    \* one finished gin context per request served, oldest first

tripVars  == <<trip, lastOp, lastErr, lastArgs, path, duration>>
schedVars == <<sched, qDate, qResult>>
genVars   == <<schedules, assignments, tripStore, pc, runDate, runList, runIdx,
               runExisting, runCreated, runRejected, runSkipped, runWarnings, runs,
               changes>>
assignVars == <<da, aOp, aArg, aErr, aResult, aDriver>>
callVars  == <<holder, cpc, creq, cok, cres>>
\* The variables of the specifications that come after the domain entities.
msgVars   == <<heap, held, mOp, mKey, mResult>>
cfgVars   == <<env, cfg, cfgErr, cfgOp>>
httpVars  == <<cors, exchanges>>
extraVars == <<callVars, msgVars, cfgVars, httpVars>>
vars      == <<trip, now, lastOp, lastErr, lastArgs, path, duration, sched, qDate, qResult,
               schedules, assignments, tripStore, pc, runDate, runList, runIdx,
               runExisting, runCreated, runRejected, runSkipped, runWarnings, runs,
               changes, da, aOp, aArg, aErr, aResult, aDriver,
               holder, cpc, creq, cok, cres, heap, held, mOp, mKey, mResult,
               env, cfg, cfgErr, cfgOp, cors, exchanges>>

(***************************************************************************)
(* Bounds                                                                  *)
(***************************************************************************)
MaxClock == 3
TicksPerDay == 2
MaxDay == 7

\* nil *time.Time
NoTime == -1

Instants == 0 .. ((MaxDay + 1) * TicksPerDay - 1)

(***************************************************************************)
(* Trip (internal/domain/route.go)                                         *)
(***************************************************************************)
TripStatusPending    == "pending"
TripStatusInProgress == "in_progress"
TripStatusCompleted  == "completed"
TripStatusCancelled  == "cancelled"

\* NewTrip(scheduleID, date, vehicleID, driverID, attendantID) at clock reading clk
NewTrip(scheduleID, date, vehicleID, driverID, attendantID, clk) ==
    [ ID                  |-> "",
      ScheduleID          |-> scheduleID,
      Date                |-> date,
      Status              |-> TripStatusPending,
      VehicleID           |-> vehicleID,
      AssignedDriverID    |-> driverID,
      AssignedAttendantID |-> attendantID,
      StartedAt           |-> NoTime,
      CompletedAt         |-> NoTime,
      StartedBy           |-> "",
      ActualStartLocation |-> "nil",
      ActualEndLocation   |-> "nil",
      TripPassengers      |-> << >>,
      CancelledAt         |-> NoTime,
      CancellationReason  |-> "",
      CreatedAt           |-> clk,
      UpdatedAt           |-> clk,
      DeletedAt           |-> NoTime ]

\* Trip.IsCompleted()
IsCompleted(t) == t.Status = TripStatusCompleted

\* Mutant of CanStart: a cancelled trip may be started too.
CanStart_AlsoCancelled(t) == t.Status \in {TripStatusPending, TripStatusCancelled}
\* Trip.CanStart()
CanStart(t) == t.Status = TripStatusPending

\* Mutant of CanComplete: a pending trip may be completed too.
CanComplete_AlsoPending(t) == t.Status \in {TripStatusPending, TripStatusInProgress}
\* Trip.CanComplete()
CanComplete(t) == t.Status = TripStatusInProgress

\* A method's outcome: the entity after the call and the error returned.
Outcome(t, e) == [trip |-> t, err |-> e]

\* Mutant of TripStart: the timestamp is written before the status check.
TripStart_TouchFirst(t, startedBy, location, clk) ==
    IF ~CanStart(t)
    THEN Outcome([t EXCEPT !.UpdatedAt = clk], "cannot start trip")
    ELSE Outcome([t EXCEPT !.Status = TripStatusInProgress,
                           !.StartedAt = clk,
                           !.StartedBy = startedBy,
                           !.ActualStartLocation = location,
                           !.UpdatedAt = clk], "nil")

\* Trip.Start(startedBy, location), time.Now() reading clk
TripStart(t, startedBy, location, clk) ==
    IF ~CanStart(t)
    THEN Outcome(t, "cannot start trip")
    ELSE Outcome([t EXCEPT !.Status = TripStatusInProgress,
                           !.StartedAt = clk,
                           !.StartedBy = startedBy,
                           !.ActualStartLocation = location,
                           !.UpdatedAt = clk], "nil")

\* Mutant of TripComplete: the roster is emptied on completion.
TripComplete_ClearRoster(t, location, clk) ==
    IF ~CanComplete(t)
    THEN Outcome(t, "cannot complete trip")
    ELSE Outcome([t EXCEPT !.Status = TripStatusCompleted,
                           !.CompletedAt = clk,
                           !.ActualEndLocation = location,
                           !.TripPassengers = << >>,
                           !.UpdatedAt = clk], "nil")

\* Trip.Complete(location), time.Now() reading clk
TripComplete(t, location, clk) ==
    IF ~CanComplete(t)
    THEN Outcome(t, "cannot complete trip")
    ELSE Outcome([t EXCEPT !.Status = TripStatusCompleted,
                           !.CompletedAt = clk,
                           !.ActualEndLocation = location,
                           !.UpdatedAt = clk], "nil")

\* Mutant of TripCancel: the completed check is missing.
TripCancel_NoCheck(t, reason, clk) ==
    Outcome([t EXCEPT !.Status = TripStatusCancelled,
                      !.CancelledAt = clk,
                      !.CancellationReason = reason,
                      !.UpdatedAt = clk], "nil")

\* Trip.Cancel(reason), time.Now() reading clk
TripCancel(t, reason, clk) ==
    IF IsCompleted(t)
    THEN Outcome(t, "cannot cancel completed trip")
    ELSE Outcome([t EXCEPT !.Status = TripStatusCancelled,
                           !.CancelledAt = clk,
                           !.CancellationReason = reason,
                           !.UpdatedAt = clk], "nil")

\* Clock ticks per minute of the trip clock.
TicksPerMinute == 2

\* Go's conversion int(x) of a quotient: truncation toward zero.
TruncDiv(a, b) == IF a >= 0 THEN a \div b ELSE -((-a) \div b)

\* Mutant of TripGetDuration: the nil check of CompletedAt is missing.
TripGetDuration_NoNilCheck(t) ==
    IF t.StartedAt = NoTime
    THEN 0
    ELSE TruncDiv(t.CompletedAt - t.StartedAt, TicksPerMinute)

\* Trip.GetDuration()
TripGetDuration(t) ==
    IF t.StartedAt = NoTime \/ t.CompletedAt = NoTime
    THEN 0
    ELSE TruncDiv(t.CompletedAt - t.StartedAt, TicksPerMinute)

\* Inputs of the lifecycle calls
StarterIDs == {"driver:A", "attendant:T"}
Locations  == {"nil", "L1", "L2"}
Reasons    == {"weather", "breakdown"}

NoArgs == [startedBy |-> "", location |-> "nil", reason |-> "", passenger |-> 0]

\* The status history after a call that turned trip t into u.
Extend(p, t, u) == IF u.Status # t.Status THEN Append(p, u.Status) ELSE p

\* A caller invokes trip.Start(startedBy, location).
Start(startedBy, location) ==
    \E clk \in now .. MaxClock :
        LET r == TripStart(trip, startedBy, location, clk) IN
        /\ trip' = r.trip
        /\ lastErr' = r.err
        /\ lastOp' = "Start"
        /\ lastArgs' = [NoArgs EXCEPT !.startedBy = startedBy, !.location = location]
        /\ path' = Extend(path, trip, r.trip)
        /\ duration' = 0
        /\ now' = clk
        /\ UNCHANGED <<schedVars, genVars, assignVars, extraVars>>

\* A caller invokes trip.Complete(location).
Complete(location) ==
    \E clk \in now .. MaxClock :
        LET r == TripComplete(trip, location, clk) IN
        /\ trip' = r.trip
        /\ lastErr' = r.err
        /\ lastOp' = "Complete"
        /\ lastArgs' = [NoArgs EXCEPT !.location = location]
        /\ path' = Extend(path, trip, r.trip)
        /\ duration' = 0
        /\ now' = clk
        /\ UNCHANGED <<schedVars, genVars, assignVars, extraVars>>

\* A caller invokes trip.GetDuration(); the trip is only read.
GetDuration ==
    /\ duration' = TripGetDuration(trip)
    /\ lastOp' = "GetDuration"
    /\ lastErr' = "nil"
    /\ lastArgs' = NoArgs
    /\ UNCHANGED <<trip, path, now, schedVars, genVars, assignVars, extraVars>>

\* A caller invokes trip.Cancel(reason).
Cancel(reason) ==
    \E clk \in now .. MaxClock :
        LET r == TripCancel(trip, reason, clk) IN
        /\ trip' = r.trip
        /\ lastErr' = r.err
        /\ lastOp' = "Cancel"
        /\ lastArgs' = [NoArgs EXCEPT !.reason = reason]
        /\ path' = Extend(path, trip, r.trip)
        /\ duration' = 0
        /\ now' = clk
        /\ UNCHANGED <<schedVars, genVars, assignVars, extraVars>>

(***************************************************************************)
(* TripPassenger (internal/domain/route.go)                                *)
(***************************************************************************)
NumPassengers == 2
NoShowReasons == {"absent"}

\* NewTripPassenger(tripID, passengerID, stopID) at clock reading clk
NewTripPassenger(tripID, passengerID, stopID, clk) ==
    [ ID           |-> "",
      TripID       |-> tripID,
      PassengerID  |-> passengerID,
      StopID       |-> stopID,
      BoardedAt    |-> NoTime,
      AlightedAt   |-> NoTime,
      IsBoarded    |-> FALSE,
      IsAlighted   |-> FALSE,
      NoShowReason |-> "",
      Notes        |-> "",
      CreatedAt    |-> clk,
      UpdatedAt    |-> clk ]

\* TripPassenger.BoardPassenger(), time.Now() reading clk
TPBoardPassenger(tp, clk) ==
    [tp EXCEPT !.IsBoarded = TRUE, !.BoardedAt = clk, !.UpdatedAt = clk]

\* Mutant of TPAlightPassenger: the flag is set without the timestamp.
TPAlightPassenger_FlagOnly(tp, clk) ==
    [tp EXCEPT !.IsAlighted = TRUE, !.UpdatedAt = clk]

\* TripPassenger.AlightPassenger(), time.Now() reading clk
TPAlightPassenger(tp, clk) ==
    [tp EXCEPT !.IsAlighted = TRUE, !.AlightedAt = clk, !.UpdatedAt = clk]

\* TripPassenger.GetBoardingDuration()
TPGetBoardingDuration(tp) ==
    IF tp.BoardedAt = NoTime \/ tp.AlightedAt = NoTime
    THEN 0
    ELSE TruncDiv(tp.AlightedAt - tp.BoardedAt, TicksPerMinute)

\* TripPassenger.MarkNoShow(reason), time.Now() reading clk
TPMarkNoShow(tp, reason, clk) ==
    [tp EXCEPT !.IsBoarded = FALSE, !.NoShowReason = reason, !.UpdatedAt = clk]

\* Mutant of WithPassenger: the receiver aliases every record of the trip.
WithPassenger_Aliased(t, i, tp) ==
    [t EXCEPT !.TripPassengers = [j \in DOMAIN t.TripPassengers |-> tp]]

\* The trip after a method ran on the receiver &t.TripPassengers[i] and left
\* it as tp: the slice holds the records by value, one element is written.
WithPassenger(t, i, tp) == [t EXCEPT !.TripPassengers[i] = tp]

\* A call on passenger record i that leaves it as tp.  The passenger methods
\* return nothing; the clock does not advance while boarding is examined.
PassengerCall(op, i, reason, tp) ==
    /\ trip' = WithPassenger(trip, i, tp)
    /\ lastOp' = op
    /\ lastErr' = "nil"
    /\ lastArgs' = [NoArgs EXCEPT !.passenger = i, !.reason = reason]
    /\ duration' = 0
    /\ UNCHANGED <<path, now, schedVars, genVars, assignVars, extraVars>>

\* A caller invokes trip.TripPassengers[i].BoardPassenger().
BoardPassenger(i) ==
    /\ i \in DOMAIN trip.TripPassengers
    /\ PassengerCall("BoardPassenger", i, "", TPBoardPassenger(trip.TripPassengers[i], now))

\* A caller invokes trip.TripPassengers[i].AlightPassenger().
AlightPassenger(i) ==
    /\ i \in DOMAIN trip.TripPassengers
    /\ PassengerCall("AlightPassenger", i, "", TPAlightPassenger(trip.TripPassengers[i], now))

\* A caller invokes trip.TripPassengers[i].MarkNoShow(reason).
MarkNoShow(i, reason) ==
    /\ i \in DOMAIN trip.TripPassengers
    /\ PassengerCall("MarkNoShow", i, reason, TPMarkNoShow(trip.TripPassengers[i], reason, now))

\* A caller invokes trip.TripPassengers[i].GetBoardingDuration(); the record
\* is only read.
GetBoardingDuration(i) ==
    /\ i \in DOMAIN trip.TripPassengers
    /\ duration' = TPGetBoardingDuration(trip.TripPassengers[i])
    /\ lastOp' = "GetBoardingDuration"
    /\ lastErr' = "nil"
    /\ lastArgs' = [NoArgs EXCEPT !.passenger = i]
    /\ UNCHANGED <<trip, path, now, schedVars, genVars, assignVars, extraVars>>

(***************************************************************************)
(* Schedule (domain/schedule)                                              *)
(***************************************************************************)
ScheduleStatusActive   == "active"
ScheduleStatusInactive == "inactive"

\* time.Time.Before / After / Equal compare instants.
Before(a, b) == a < b
After(a, b)  == a > b

\* The calendar day of an instant and the midnight that starts a day.
DayOf(t) == t \div TicksPerDay
Midnight(d) == d * TicksPerDay

\* time.Time.Weekday(): 0 = Sunday .. 6 = Saturday; day 0 is a Monday.
Weekday(date) == (DayOf(date) + 1) % 7

\* Mutant of DayOfWeek: Sunday stays 0.
DayOfWeek_SundayZero(date) == Weekday(date)

\* dayOfWeek := int(date.Weekday()); if dayOfWeek == 0 { dayOfWeek = 7 }
DayOfWeek(date) == IF Weekday(date) = 0 THEN 7 ELSE Weekday(date)

\* NewSchedule(name, startTime, timeSlot, daysOfWeek, routeID, vehicleID, driverID)
NewSchedule(id, daysOfWeek, routeID, vehicleID, driverID, clk) ==
    [ ID                 |-> id,
      Status             |-> ScheduleStatusActive,
      DaysOfWeek         |-> daysOfWeek,
      RouteID            |-> routeID,
      VehicleID          |-> vehicleID,
      DefaultDriverID    |-> driverID,
      DefaultAttendantID |-> "nil",
      ValidFrom          |-> NoTime,
      ValidTo            |-> NoTime,
      CreatedAt          |-> clk,
      UpdatedAt          |-> clk,
      DeletedAt          |-> NoTime ]

\* Mutant of IsActive: the soft-delete mark is not looked at.
IsActive_IgnoreDeleted(s) == s.Status = ScheduleStatusActive

\* Schedule.IsActive()
IsActive(s) == s.Status = ScheduleStatusActive /\ s.DeletedAt = NoTime

\* for _, day := range s.DaysOfWeek { if day == dayOfWeek { return true } }; return false
RECURSIVE RangeContains(_, _, _)
RangeContains(days, i, dayOfWeek) ==
    IF i > Len(days) THEN FALSE
    ELSE IF days[i] = dayOfWeek THEN TRUE
    ELSE RangeContains(days, i + 1, dayOfWeek)

\* Schedule.IsActiveOnDate(date)
IsActiveOnDate(s, date) ==
    IF ~IsActive(s) THEN FALSE
    ELSE IF s.ValidFrom # NoTime /\ Before(date, s.ValidFrom) THEN FALSE
    ELSE IF s.ValidTo # NoTime /\ After(date, s.ValidTo) THEN FALSE
    ELSE RangeContains(s.DaysOfWeek, 1, DayOfWeek(date))

\* Schedule setters; each stamps UpdatedAt with time.Now().
ScheduleSetActive(s, clk)   == [s EXCEPT !.Status = ScheduleStatusActive, !.UpdatedAt = clk]
ScheduleSetInactive(s, clk) == [s EXCEPT !.Status = ScheduleStatusInactive, !.UpdatedAt = clk]
ScheduleUpdateDaysOfWeek(s, days, clk) == [s EXCEPT !.DaysOfWeek = days, !.UpdatedAt = clk]
ScheduleSetValidPeriod(s, from, to, clk) ==
    [s EXCEPT !.ValidFrom = from, !.ValidTo = to, !.UpdatedAt = clk]
\* Schedule.AssignDriver(driverID)
ScheduleAssignDriver(s, driverID, clk) ==
    [s EXCEPT !.DefaultDriverID = driverID, !.UpdatedAt = clk]
ScheduleClearValidPeriod(s, clk) ==
    [s EXCEPT !.ValidFrom = NoTime, !.ValidTo = NoTime, !.UpdatedAt = clk]

\* Inputs: the recurrence slices tried (0 and 7 both appear: only 7 means Sunday)
\* and the instants a validity bound may take.
DaysChoices == { << >>, <<1, 2, 3, 4, 5>>, <<6, 7>>, <<7>>, <<0>>, <<3, 1>> }
MaxPeriodDay == 1
PeriodBounds == 0 .. ((MaxPeriodDay + 1) * TicksPerDay - 1)

\* A setter replaces the schedule and forgets the last query.  The clock does
\* not advance while one schedule is examined: time.Now() reads now.
SchedSet(s) ==
    /\ sched' = s
    /\ qDate' = NoTime
    /\ qResult' = FALSE
    /\ UNCHANGED <<now, tripVars, genVars, assignVars, extraVars>>

SetActive == SchedSet(ScheduleSetActive(sched, now))
SetInactive == SchedSet(ScheduleSetInactive(sched, now))
UpdateDaysOfWeek ==
    \E days \in DaysChoices : SchedSet(ScheduleUpdateDaysOfWeek(sched, days, now))
SetValidPeriod ==
    \E from \in PeriodBounds , to \in PeriodBounds :
        SchedSet(ScheduleSetValidPeriod(sched, from, to, now))
ClearValidPeriod == SchedSet(ScheduleClearValidPeriod(sched, now))

\* Mutant of QueryActiveOnDate: the query stamps UpdatedAt like a setter.
QueryActiveOnDate_Touch ==
    \E date \in Instants :
        /\ qDate' = date
        /\ qResult' = IsActiveOnDate(sched, date)
        /\ sched' = [sched EXCEPT !.UpdatedAt = date]
        /\ UNCHANGED <<now, tripVars, genVars, assignVars, extraVars>>

\* A caller asks sched.IsActiveOnDate(date).
QueryActiveOnDate ==
    \E date \in Instants :
        /\ qDate' = date
        /\ qResult' = IsActiveOnDate(sched, date)
        /\ UNCHANGED <<sched, now, tripVars, genVars, assignVars, extraVars>>

(***************************************************************************)
(* DriverAssignment (internal/domain/route.go)                             *)
(***************************************************************************)
\* NewDriverAssignment(scheduleID, driverID, startDate, endDate, reason, createdBy)
NewDriverAssignment(scheduleID, driverID, startDate, endDate, clk) ==
    [ ScheduleID |-> scheduleID,
      DriverID   |-> driverID,
      StartDate  |-> startDate,
      EndDate    |-> endDate,
      ApprovedAt |-> NoTime,
      CreatedAt  |-> clk,
      UpdatedAt  |-> clk,
      DeletedAt  |-> NoTime ]

\* time.Date(t.Year(), t.Month(), t.Day(), 0, 0, 0, 0, t.Location())
DateOnly(t) == Midnight(DayOf(t))

\* Mutant of AssignmentIsActiveOnDate: the three times are compared as they
\* are, without truncation to the date.
AssignmentIsActiveOnDate_NoTruncate(a, date) ==
    IF a.DeletedAt # NoTime THEN FALSE
    ELSE /\ (date = a.StartDate \/ After(date, a.StartDate))
         /\ (date = a.EndDate \/ Before(date, a.EndDate))

\* DriverAssignment.IsActiveOnDate(date)
AssignmentIsActiveOnDate(a, date) ==
    IF a.DeletedAt # NoTime THEN FALSE
    ELSE /\ (DateOnly(date) = DateOnly(a.StartDate) \/ After(DateOnly(date), DateOnly(a.StartDate)))
         /\ (DateOnly(date) = DateOnly(a.EndDate) \/ Before(DateOnly(date), DateOnly(a.EndDate)))

\* A method's outcome on an entity other than a Trip.
Result(x, e) == [entity |-> x, err |-> e]

\* Mutant of AssignmentExtendPeriod: the comparison with the current end is missing.
AssignmentExtendPeriod_NoEndCheck(a, newEndDate, clk) ==
    IF Before(newEndDate, a.StartDate)
    THEN Result(a, "end date cannot be before start date")
    ELSE Result([a EXCEPT !.EndDate = newEndDate, !.UpdatedAt = clk], "nil")

\* DriverAssignment.ExtendPeriod(newEndDate), time.Now() reading clk
AssignmentExtendPeriod(a, newEndDate, clk) ==
    IF Before(newEndDate, a.StartDate)
    THEN Result(a, "end date cannot be before start date")
    ELSE IF Before(newEndDate, a.EndDate)
    THEN Result(a, "new end date must be after current end date")
    ELSE Result([a EXCEPT !.EndDate = newEndDate, !.UpdatedAt = clk], "nil")

\* DriverAssignment.ShortenPeriod(newEndDate), time.Now() reading clk
AssignmentShortenPeriod(a, newEndDate, clk) ==
    IF Before(newEndDate, a.StartDate)
    THEN Result(a, "end date cannot be before start date")
    ELSE IF After(newEndDate, a.EndDate)
    THEN Result(a, "new end date must be before current end date")
    ELSE Result([a EXCEPT !.EndDate = newEndDate, !.UpdatedAt = clk], "nil")

(***************************************************************************)
(* Trip generation (architecture document, TripService.CreateTripForDate)  *)
(***************************************************************************)
NumInvocations == 2
MaxRuns == 2
MaxGenDay == 1

Procs       == 1 .. NumInvocations
ScheduleIDs == {"S1", "S2"}
GenDates    == { Midnight(d) : d \in 0 .. MaxGenDay }

\* The schedule ids in the order the repository lists them.
ScheduleOrder == <<"S1", "S2">>

\* The snapshots generation runs over.
GenDaysChoices == { <<1, 2, 3, 4, 5>>, <<2>> }
ScheduleSnapshots ==
    { [id \in ScheduleIDs |->
          NewSchedule(id, IF id = "S1" THEN d1 ELSE d2, "R1", "V1", "A", 0)] :
      d1 \in GenDaysChoices , d2 \in GenDaysChoices }
\* Two overrides of schedule S1 whose periods share day MaxGenDay.
OverlappingChoices ==
    { NewDriverAssignment("S1", "G", Midnight(0), Midnight(MaxGenDay), 0),
      NewDriverAssignment("S1", "K", Midnight(MaxGenDay), Midnight(MaxGenDay), 0) }

\* Snapshots in which a schedule may lack its vehicle reference.
VehicleChoices == {"V1", ""}
FailingSnapshots ==
    { [id \in ScheduleIDs |->
          NewSchedule(id, <<1, 2, 3, 4, 5>>, "R1", IF id = "S1" THEN v1 ELSE v2, "A", 0)] :
      v1 \in VehicleChoices , v2 \in VehicleChoices }
AssignmentChoices ==
    { NewDriverAssignment("S1", "G", Midnight(0), Midnight(MaxGenDay), 0),
      NewDriverAssignment("S2", "H", Midnight(MaxGenDay), Midnight(MaxGenDay), 0) }

\* The schedules of ids[i..] that are in force on date, in order.
RECURSIVE FilterIDs(_, _, _)
FilterIDs(ids, i, date) ==
    IF i > Len(ids) THEN << >>
    ELSE IF IsActiveOnDate(schedules[ids[i]], date)
         THEN <<schedules[ids[i]]>> \o FilterIDs(ids, i + 1, date)
         ELSE FilterIDs(ids, i + 1, date)

\* scheduleRepo.GetActiveSchedules(date): the schedules in force on date.
GetActiveSchedules(date) == FilterIDs(ScheduleOrder, 1, date)

\* assignmentRepo.GetForDate(scheduleID, date): the overrides it may return
\* (any override of the schedule active on the date).  A pointer is a sequence
\* of length 0 (nil) or 1.
GetForDateIn(overrides, scheduleID, date) ==
    LET active == { a \in overrides :
                      a.ScheduleID = scheduleID /\ AssignmentIsActiveOnDate(a, date) }
    IN  IF active = {} THEN { << >> } ELSE { <<a>> : a \in active }

\* GetForDate over the override snapshot of the generation run.
GetForDate(scheduleID, date) == GetForDateIn(assignments, scheduleID, date)

\* Whether the store holds a non-deleted trip for (scheduleID, date).
HasTrip(store, scheduleID, date) ==
    \E i \in 1 .. Len(store) :
        /\ store[i].ScheduleID = scheduleID
        /\ store[i].Date = date
        /\ store[i].DeletedAt = NoTime

\* Mutant of RepoCreate: a trip for an existing (scheduleID, date) replaces
\* the stored one.
RepoCreate_Upsert(store, t) ==
    IF t.VehicleID = ""
    THEN [store |-> store, err |-> "missing vehicle reference"]
    ELSE IF \E i \in 1 .. Len(store) : store[i].ScheduleID = t.ScheduleID /\ store[i].Date = t.Date
    THEN [store |-> [i \in 1 .. Len(store) |->
                        IF store[i].ScheduleID = t.ScheduleID /\ store[i].Date = t.Date
                        THEN t ELSE store[i]],
          err |-> "nil"]
    ELSE [store |-> Append(store, t), err |-> "nil"]

\* Mutant of RepoCreate: the store has no uniqueness check.
RepoCreate_NoUnique(store, t) ==
    IF t.VehicleID = ""
    THEN [store |-> store, err |-> "missing vehicle reference"]
    ELSE [store |-> Append(store, t), err |-> "nil"]

\* tripRepo.Create(trip): rejects a trip without a vehicle reference and a
\* second trip for the same (scheduleID, date).
RepoCreate(store, t) ==
    IF t.VehicleID = ""
    THEN [store |-> store, err |-> "missing vehicle reference"]
    ELSE IF HasTrip(store, t.ScheduleID, t.Date)
    THEN [store |-> store, err |-> "duplicate key"]
    ELSE [store |-> Append(store, t), err |-> "nil"]

\* Mutant of EffectiveDriver: the override is ignored.
EffectiveDriver_DefaultOnly(schedule, assignment) == schedule.DefaultDriverID

\* driverID := schedule.DefaultDriverID; if assignment != nil { driverID = assignment.DriverID }
EffectiveDriver(schedule, assignment) ==
    IF assignment # << >> THEN assignment[1].DriverID ELSE schedule.DefaultDriverID

\* CreateTripForDate(date) begins: schedules := s.scheduleRepo.GetActiveSchedules(date)
Invoke(p) ==
    /\ pc[p] \in {"idle", "done"}
    /\ runs < MaxRuns
    /\ \E date \in GenDates :
        /\ runDate' = [runDate EXCEPT ![p] = date]
        /\ runList' = [runList EXCEPT ![p] = GetActiveSchedules(date)]
        /\ runExisting' = [runExisting EXCEPT ![p] =
                              { id \in ScheduleIDs : HasTrip(tripStore, id, date) }]
    /\ runIdx' = [runIdx EXCEPT ![p] = 1]
    /\ runCreated' = [runCreated EXCEPT ![p] = {}]
    /\ runRejected' = [runRejected EXCEPT ![p] = {}]
    /\ runSkipped' = [runSkipped EXCEPT ![p] = << >>]
    /\ runWarnings' = [runWarnings EXCEPT ![p] = << >>]
    /\ pc' = [pc EXCEPT ![p] = "loop"]
    /\ runs' = runs + 1
    /\ UNCHANGED <<schedules, assignments, tripStore, changes, now, tripVars, schedVars,
                   assignVars, extraVars>>

\* One pass of the range loop: resolve the driver, build the trip, create it.
\* The result of tripRepo.Create is discarded and nothing is reported.
Iterate(p) ==
    /\ pc[p] = "loop"
    /\ runIdx[p] <= Len(runList[p])
    /\ LET schedule == runList[p][runIdx[p]] IN
       \E assignment \in GetForDate(schedule.ID, runDate[p]) :
           LET driverID == EffectiveDriver(schedule, assignment)
               t == NewTrip(schedule.ID, runDate[p], schedule.VehicleID, driverID,
                            schedule.DefaultAttendantID, now)
               r == RepoCreate(tripStore, t)
           IN  /\ tripStore' = r.store
               /\ runCreated' = [runCreated EXCEPT ![p] =
                                    IF r.err = "nil" THEN @ \cup {schedule.ID} ELSE @]
               /\ runRejected' = [runRejected EXCEPT ![p] =
                                     IF r.err = "nil" THEN @ ELSE @ \cup {schedule.ID}]
    /\ runIdx' = [runIdx EXCEPT ![p] = @ + 1]
    /\ UNCHANGED <<schedules, assignments, pc, runDate, runList, runExisting, runSkipped,
                   runWarnings, runs, changes, now, tripVars, schedVars, assignVars, extraVars>>

\* The range loop is exhausted and CreateTripForDate returns.
Return(p) ==
    /\ pc[p] = "loop"
    /\ runIdx[p] > Len(runList[p])
    /\ pc' = [pc EXCEPT ![p] = "done"]
    /\ UNCHANGED <<schedules, assignments, tripStore, runDate, runList, runIdx, runExisting,
                   runCreated, runRejected, runSkipped, runWarnings, runs, changes, now, tripVars,
                   schedVars, assignVars, extraVars>>

(***************************************************************************)
(* Changes to schedules and overrides between generation runs              *)
(***************************************************************************)
MaxChanges == 2
MaxRequests == 2
DefaultDrivers == {"A", "B"}

\* A change to the data generation reads; invocations are left as they are.
DataChange(newSchedules, newAssignments) ==
    /\ changes < MaxChanges
    /\ schedules' = newSchedules
    /\ assignments' = newAssignments
    /\ changes' = changes + 1
    /\ UNCHANGED <<tripStore, pc, runDate, runList, runIdx, runExisting, runCreated,
                   runRejected, runSkipped, runWarnings, runs, now, tripVars, schedVars,
                   assignVars, extraVars>>

\* An administrator gives schedule id another default driver.
AssignDriver(id, driverID) ==
    DataChange([schedules EXCEPT ![id] = ScheduleAssignDriver(@, driverID, now)], assignments)

\* An administrator creates an override.
CreateOverride(a) ==
    /\ a \notin assignments
    /\ DataChange(schedules, assignments \cup {a})

\* An administrator extends the period of override a.
ExtendOverride(a, newEndDate) ==
    /\ a \in assignments
    /\ DataChange(schedules,
                  (assignments \ {a}) \cup {AssignmentExtendPeriod(a, newEndDate, now).entity})

\* An administrator shortens the period of override a.
ShortenOverride(a, newEndDate) ==
    /\ a \in assignments
    /\ DataChange(schedules,
                  (assignments \ {a}) \cup {AssignmentShortenPeriod(a, newEndDate, now).entity})

\* Override a is soft-deleted: its DeletedAt is set.
SoftDeleteOverride(a) ==
    /\ a \in assignments
    /\ a.DeletedAt = NoTime
    /\ DataChange(schedules, (assignments \ {a}) \cup {[a EXCEPT !.DeletedAt = now]})

(***************************************************************************)
(* One DriverAssignment: period methods, IsActiveOnDate, driver resolution *)
(***************************************************************************)
MaxStartDay == 1
StartInstants == 0 .. ((MaxStartDay + 1) * TicksPerDay - 1)

\* The schedule the assignment overrides: default driver A.
OverriddenSchedule == NewSchedule("S1", <<1, 2, 3, 4, 5>>, "R1", "V1", "A", 0)

\* The last call on the assignment.  The clock does not advance while one
\* assignment is examined: time.Now() reads now.
AssignCall(a, op, arg, err, result, driver) ==
    /\ da' = a
    /\ aOp' = op
    /\ aArg' = arg
    /\ aErr' = err
    /\ aResult' = result
    /\ aDriver' = driver
    /\ UNCHANGED <<now, tripVars, schedVars, genVars, extraVars>>

\* A caller invokes da.ExtendPeriod(newEndDate).
ExtendPeriod ==
    \E newEndDate \in Instants :
        LET r == AssignmentExtendPeriod(da, newEndDate, now) IN
        AssignCall(r.entity, "ExtendPeriod", newEndDate, r.err, FALSE, "")

\* A caller invokes da.ShortenPeriod(newEndDate).
ShortenPeriod ==
    \E newEndDate \in Instants :
        LET r == AssignmentShortenPeriod(da, newEndDate, now) IN
        AssignCall(r.entity, "ShortenPeriod", newEndDate, r.err, FALSE, "")

\* A caller asks da.IsActiveOnDate(date).
QueryAssignment ==
    \E date \in Instants :
        AssignCall(da, "IsActiveOnDate", date, "nil", AssignmentIsActiveOnDate(da, date), "")

\* The driver of the overridden schedule is resolved for date, da being the
\* only override on record (the loop body of CreateTripForDate up to driverID).
ResolveDriver ==
    \E date \in Instants :
        \E assignment \in GetForDateIn({da}, OverriddenSchedule.ID, date) :
            AssignCall(da, "ResolveDriver", date, "nil", FALSE,
                       EffectiveDriver(OverriddenSchedule, assignment))

(***************************************************************************)
(* Several callers of one Trip, the calls applied under a per-trip lock    *)
(***************************************************************************)
NumCallers == 3
Callers == 1 .. NumCallers
CallerOps == {"Start", "Complete", "Cancel"}

\* The identity caller c passes as startedBy.
CallerName(c) == "caller:" \o ToString(c)

\* The status check a lifecycle method opens with.
StatusCheck(op, t) ==
    CASE op = "Start"    -> CanStart(t)
      [] op = "Complete" -> CanComplete(t)
      [] op = "Cancel"   -> ~IsCompleted(t)

\* The error a method returns when its status check fails.
StatusError(op) ==
    CASE op = "Start"    -> "cannot start trip"
      [] op = "Complete" -> "cannot complete trip"
      [] op = "Cancel"   -> "cannot cancel completed trip"

\* The assignments a method makes after its status check passed.
StatusWrite(op, t, c, clk) ==
    CASE op = "Start"    -> [t EXCEPT !.Status = TripStatusInProgress,
                                      !.StartedAt = clk,
                                      !.StartedBy = CallerName(c),
                                      !.ActualStartLocation = "L1",
                                      !.UpdatedAt = clk]
      [] op = "Complete" -> [t EXCEPT !.Status = TripStatusCompleted,
                                      !.CompletedAt = clk,
                                      !.ActualEndLocation = "L1",
                                      !.UpdatedAt = clk]
      [] op = "Cancel"   -> [t EXCEPT !.Status = TripStatusCancelled,
                                      !.CancelledAt = clk,
                                      !.CancellationReason = "weather",
                                      !.UpdatedAt = clk]

\* Caller c sets out to call method op on the trip.
Call(c, op) ==
    /\ cpc[c] = "idle"
    /\ cpc' = [cpc EXCEPT ![c] = "waiting"]
    /\ creq' = [creq EXCEPT ![c] = op]
    /\ UNCHANGED <<holder, cok, cres, now, tripVars, schedVars, genVars, assignVars, msgVars, cfgVars, httpVars>>

\* Caller c takes the trip's lock and the method runs its status check.
Lock(c) ==
    /\ cpc[c] = "waiting"
    /\ holder = 0
    /\ holder' = c
    /\ cok' = [cok EXCEPT ![c] = StatusCheck(creq[c], trip)]
    /\ cpc' = [cpc EXCEPT ![c] = "locked"]
    /\ UNCHANGED <<creq, cres, now, tripVars, schedVars, genVars, assignVars, msgVars, cfgVars, httpVars>>

\* The method of caller c returns an error or makes its assignments and
\* returns nil, and c gives the lock back.
Finish(c) ==
    /\ cpc[c] = "locked"
    /\ LET t == IF cok[c] THEN StatusWrite(creq[c], trip, c, now) ELSE trip IN
       /\ trip' = t
       /\ path' = Extend(path, trip, t)
    /\ cres' = [cres EXCEPT ![c] = IF cok[c] THEN "nil" ELSE StatusError(creq[c])]
    /\ lastOp' = creq[c]
    /\ lastErr' = IF cok[c] THEN "nil" ELSE StatusError(creq[c])
    /\ lastArgs' = NoArgs
    /\ duration' = 0
    /\ holder' = 0
    /\ cpc' = [cpc EXCEPT ![c] = "done"]
    /\ UNCHANGED <<creq, cok, now, schedVars, genVars, assignVars, msgVars, cfgVars, httpVars>>

(***************************************************************************)
(* Message registry (internal/util, messages)                              *)
(*                                                                         *)
(* A Go string of this part is a sequence of tokens: a message template is *)
(* its text split at the verbs, the key "K" read as text is <<"K">>.  A Go *)
(* map is a function whose domain is the keys present.                     *)
(***************************************************************************)
MsgSuccess          == "SUCCESS"
MsgCreated          == "CREATED"
MsgResourceNotFound == "RESOURCE_NOT_FOUND"
MsgInternalError    == "INTERNAL_ERROR"

\* var messages: the entries the claims use.
InitialMessages ==
    [k \in {MsgSuccess, MsgCreated, MsgResourceNotFound, MsgInternalError} |->
        CASE k = MsgSuccess          -> <<"request processed">>
          [] k = MsgCreated          -> <<"%s", " created">>
          [] k = MsgResourceNotFound -> <<"%s", " not found">>
          [] k = MsgInternalError    -> <<"internal server error">>]

\* m[k] = v on a map.
MapPut(m, k, v) == [x \in DOMAIN m \cup {k} |-> IF x = k THEN v ELSE m[x]]

\* delete(m, k) on a map.
MapDelete(m, k) == [x \in DOMAIN m \ {k} |-> m[x]]

\* fmt.Sprintf(msg, args...) for the verb %s.
RECURSIVE Sprintf(_, _)
Sprintf(msg, args) ==
    IF msg = << >>
    THEN IF args = << >> THEN << >> ELSE <<"%!(EXTRA)">>
    ELSE IF Head(msg) = "%s"
         THEN IF args = << >>
              THEN <<"%!s(MISSING)">> \o Sprintf(Tail(msg), args)
              ELSE <<Head(args)>> \o Sprintf(Tail(msg), Tail(args))
         ELSE <<Head(msg)>> \o Sprintf(Tail(msg), args)

\* getMessage(key, args...) / GetMessage(key, args...) over the map registry.
GetMessage(registry, key, args) ==
    IF key \notin DOMAIN registry
    THEN <<key>>
    ELSE IF Len(args) > 0
         THEN Sprintf(registry[key], args)
         ELSE registry[key]

\* Mutant of GetAllMessages: the package map itself is returned.
GetAllMessages_Alias(h) == [heap |-> h, ref |-> 1]

\* GetAllMessages(): a new map filled from messages; ref is where it lives.
GetAllMessages(h) == [heap |-> <<h[1], [k \in DOMAIN h[1] |-> h[1][k]]>>, ref |-> 2]

\* Inputs of the registry calls
CallKeys  == {MsgSuccess, "CUSTOM_MESSAGE"}
CallTexts == {<<"custom message">>}
CallArgs  == {<< >>, <<"vehicle">>}

\* What a registry call or a write to the held map leaves behind.
MessageCall(op, key, h, ref, result) ==
    /\ heap' = h
    /\ held' = ref
    /\ mOp' = op
    /\ mKey' = key
    /\ mResult' = result
    /\ UNCHANGED <<now, tripVars, schedVars, genVars, assignVars, callVars, cfgVars, httpVars>>

\* A caller invokes util.GetMessage(key, args...).
GetMessageCall(key, args) ==
    MessageCall("GetMessage", key, heap, held, GetMessage(heap[1], key, args))

\* A caller invokes util.AddMessage(key, message).
AddMessage(key, message) ==
    MessageCall("AddMessage", key, [heap EXCEPT ![1] = MapPut(@, key, message)], held, << >>)

\* A caller invokes util.GetAllMessages() and keeps the map it returns.
GetAllMessagesCall ==
    LET r == GetAllMessages(heap) IN
    MessageCall("GetAllMessages", "", r.heap, r.ref, << >>)

\* The caller adds or changes an entry of the map it holds.
HeldPut(key, message) ==
    /\ held # 0
    /\ MessageCall("put", key, [heap EXCEPT ![held] = MapPut(@, key, message)], held, << >>)

\* The caller deletes an entry of the map it holds.
HeldDelete(key) ==
    /\ held # 0
    /\ MessageCall("delete", key, [heap EXCEPT ![held] = MapDelete(@, key)], held, << >>)

(***************************************************************************)
(* Configuration (package config)                                          *)
(*                                                                         *)
(* The environment is a function from the names that are set to their      *)
(* values.  Config keeps the string fields that Validate, IsDevelopment    *)
(* and IsProduction read, and Log.Format; its numbers and durations are    *)
(* read by none of them.                                                   *)
(***************************************************************************)
EnvKeys == {"SERVER_PORT", "ENVIRONMENT", "DB_USER", "DB_NAME", "LOG_LEVEL", "LOG_FORMAT"}

validEnvs      == {"dev", "staging", "prod"}
validLogLevels == {"debug", "info", "warn", "error"}

\* The values a deployment or a test gives each variable ("": set but empty).
EnvValues(key) ==
    CASE key = "ENVIRONMENT" -> validEnvs \cup {"", "invalid"}
      [] key = "LOG_LEVEL"   -> {"debug", "error", "", "invalid"}
      [] key = "SERVER_PORT" -> {"", "9090"}
      [] key = "DB_USER"     -> {"testuser"}

\* The variables the environment sets or unsets; the others stay unset.
SetKeys == {"SERVER_PORT", "ENVIRONMENT", "DB_USER", "LOG_LEVEL"}

\* os.Getenv(key): the empty string for a variable that is not set.
Getenv(e, key) == IF key \in DOMAIN e THEN e[key] ELSE ""

\* Mutant of getEnv: the value is returned even when it is empty.
getEnv_NoDefault(e, key, defaultValue) == Getenv(e, key)

\* getEnv(key, defaultValue)
getEnv(e, key, defaultValue) ==
    LET value == Getenv(e, key) IN
    IF value = "" THEN defaultValue ELSE value

\* (*Config).Validate(): nil or the first failing check's error.
ConfigValidate(c) ==
    IF c.Server.Port = "" THEN "SERVER_PORT is required"
    ELSE IF c.Database.User = "" THEN "DB_USER is required"
    ELSE IF c.Database.DBName = "" THEN "DB_NAME is required"
    ELSE IF c.Server.Environment \notin validEnvs
         THEN "invalid ENVIRONMENT: " \o c.Server.Environment
    ELSE IF c.Log.Level \notin validLogLevels
         THEN "invalid LOG_LEVEL: " \o c.Log.Level
    ELSE "nil"

\* (*Config).IsDevelopment()
IsDevelopment(c) == c.Server.Environment = "dev"

\* (*Config).IsProduction()
IsProduction(c) == c.Server.Environment = "prod"

\* The default each variable has in Load.
EnvDefault(key) ==
    CASE key = "SERVER_PORT" -> "8080"
      [] key = "ENVIRONMENT" -> "dev"
      [] key = "DB_USER"     -> "postgres"
      [] key = "DB_NAME"     -> "eodini"
      [] key = "LOG_LEVEL"   -> "info"
      [] key = "LOG_FORMAT"  -> "text"

\* Load(): the config read from the environment, nil with Validate's error.
Load(e) ==
    LET config == [Server   |-> [Port        |-> getEnv(e, "SERVER_PORT", EnvDefault("SERVER_PORT")),
                                 Environment |-> getEnv(e, "ENVIRONMENT", EnvDefault("ENVIRONMENT"))],
                   Database |-> [User   |-> getEnv(e, "DB_USER", EnvDefault("DB_USER")),
                                 DBName |-> getEnv(e, "DB_NAME", EnvDefault("DB_NAME"))],
                   Log      |-> [Level  |-> getEnv(e, "LOG_LEVEL", EnvDefault("LOG_LEVEL")),
                                 Format |-> getEnv(e, "LOG_FORMAT", EnvDefault("LOG_FORMAT"))]]
        err == ConfigValidate(config)
    IN  IF err # "nil" THEN [config |-> << >>, err |-> err]
                       ELSE [config |-> <<config>>, err |-> "nil"]

\* os.Setenv(key, value)
Setenv(key, value) ==
    /\ env' = MapPut(env, key, value)
    /\ cfgOp' = "Setenv"
    /\ UNCHANGED <<cfg, cfgErr, now, tripVars, schedVars, genVars, assignVars, callVars, msgVars, httpVars>>

\* os.Unsetenv(key)
Unsetenv(key) ==
    /\ env' = MapDelete(env, key)
    /\ cfgOp' = "Unsetenv"
    /\ UNCHANGED <<cfg, cfgErr, now, tripVars, schedVars, genVars, assignVars, callVars, msgVars, httpVars>>

\* The program calls config.Load().
LoadCall ==
    LET r == Load(env) IN
    /\ cfg' = r.config
    /\ cfgErr' = r.err
    /\ cfgOp' = "Load"
    /\ UNCHANGED <<env, now, tripVars, schedVars, genVars, assignVars, callVars, msgVars, httpVars>>

(***************************************************************************)
(* HTTP layer: gin context, util errors and responses, middleware, router  *)
(*                                                                         *)
(* A gin context is a record.  index is the position in the handler chain  *)
(* (1-based, 0 before the first c.Next()), headers the response headers    *)
(* that are set, body the JSON documents written, errors c.Errors, panic   *)
(* the value of a panic that is unwinding (<< >>: none), trace the chain   *)
(* members entered and logs the entries RequestLogger wrote.               *)
(***************************************************************************)
AbortIndex == 63

StatusOK                  == 200
StatusNoContent           == 204
StatusForbidden           == 403
StatusNotFound            == 404
StatusInternalServerError == 500

ErrCodeNotFound == "NOT_FOUND"
ErrCodeInternal == "INTERNAL_ERROR"

NewContext(method, origin, behaviour) ==
    [method |-> method, origin |-> origin, behaviour |-> behaviour,
     index |-> 0, status |-> StatusOK, written |-> FALSE, headers |-> << >>,
     body |-> << >>, errors |-> << >>, panic |-> << >>,
     trace |-> << >>, logs |-> << >>]

\* c.Writer.Header().Set(name, value)
SetHeader(c, name, value) == [c EXCEPT !.headers = MapPut(@, name, value)]

\* c.Abort()
Abort(c) == [c EXCEPT !.index = AbortIndex]

\* c.IsAborted()
IsAborted(c) == c.index >= AbortIndex

\* c.Status(code): the status is kept once the header has been written.
Status(c, code) ==
    IF code > 0 /\ c.status # code /\ ~c.written THEN [c EXCEPT !.status = code] ELSE c

\* c.Writer.WriteHeaderNow()
WriteHeaderNow(c) == [c EXCEPT !.written = TRUE]

\* c.AbortWithStatus(code)
AbortWithStatus(c, code) == Abort(WriteHeaderNow(Status(c, code)))

\* c.JSON(code, obj): no body is written for 1xx, 204 and 304.
JSON(c, code, obj) ==
    LET c1 == SetHeader(WriteHeaderNow(Status(c, code)), "Content-Type", "application/json")
    IN  IF code < 200 \/ code = StatusNoContent \/ code = 304
        THEN c1
        ELSE [c1 EXCEPT !.body = Append(@, obj)]

\* c.Error(err)
Error(c, err) == [c EXCEPT !.errors = Append(@, err)]

\* panic(v) in a handler
Panic(c, v) == [c EXCEPT !.panic = <<v>>]

\* errors.New(text); isApp tells an *AppError from any other error.
NewError(text) ==
    [isApp |-> FALSE, Code |-> "", Message |-> <<text>>, StatusCode |-> 0, Details |-> << >>]

\* util.NewNotFoundError(resource)
NewNotFoundError(resource) ==
    [isApp |-> TRUE, Code |-> ErrCodeNotFound,
     Message |-> GetMessage(heap[1], MsgResourceNotFound, <<resource>>),
     StatusCode |-> StatusNotFound, Details |-> << >>]

\* util.NewInternalError(err); err.Error() is the error's message.
NewInternalError(err) ==
    [isApp |-> TRUE, Code |-> ErrCodeInternal,
     Message |-> GetMessage(heap[1], MsgInternalError, << >>),
     StatusCode |-> StatusInternalServerError,
     Details |-> MapPut(<< >>, "error", err.Message)]

\* The JSON form of an *AppError: StatusCode is not marshalled.
MarshalAppError(err) == [code |-> err.Code, message |-> err.Message, details |-> err.Details]

\* util.SuccessResponse(c, statusCode, message, data)
SuccessResponse(c, statusCode, message, data) ==
    JSON(c, statusCode, [success |-> TRUE, message |-> message, data |-> <<data>>, error |-> << >>])

\* util.ErrorResponse(c, err)
ErrorResponse(c, err) ==
    JSON(c, err.StatusCode,
         [success |-> FALSE, message |-> err.Message, data |-> << >>,
          error |-> <<MarshalAppError(err)>>])

\* The loop of cors.go that joins a list with ", ".
RECURSIVE Join(_)
Join(list) ==
    IF list = << >> THEN ""
    ELSE IF Len(list) = 1 THEN list[1]
    ELSE list[1] \o ", " \o Join(Tail(list))

\* ProductionCORSConfig(allowedOrigins)
ProductionCORSConfig(allowedOrigins) ==
    [AllowOrigins     |-> allowedOrigins,
     AllowMethods     |-> <<"GET", "POST", "PUT", "PATCH", "DELETE", "OPTIONS">>,
     AllowHeaders     |-> <<"Origin", "Content-Type", "Accept", "Authorization", "X-Request-ID">>,
     ExposeHeaders    |-> <<"Content-Length", "X-Request-ID">>,
     AllowCredentials |-> TRUE,
     MaxAge           |-> 43200]

\* DefaultCORSConfig(): the same lists, with every origin allowed.
DefaultCORSConfig == ProductionCORSConfig(<<"*">>)

\* gin's c.Next(): runs the rest of the chain from inside a chain member.
RECURSIVE Next(_)

\* Mutant of OriginAllowed: only the first entry of the list is compared.
OriginAllowed_FirstOnly(config, origin) ==
    \/ config.AllowOrigins[1] = "*"
    \/ config.AllowOrigins[1] = origin

\* CORS, the origin check of a non-empty list: the value of allowed.
OriginAllowed(config, origin) ==
    \/ config.AllowOrigins[1] = "*"
    \/ \E i \in 1 .. Len(config.AllowOrigins) : config.AllowOrigins[i] = origin

\* CORS, after the origin check: the headers the configuration asks for.
CORSHeaders(config, c) ==
    LET c1 == IF Len(config.AllowMethods) > 0
              THEN SetHeader(c, "Access-Control-Allow-Methods", Join(config.AllowMethods))
              ELSE c
        c2 == IF Len(config.AllowHeaders) > 0
              THEN SetHeader(c1, "Access-Control-Allow-Headers", Join(config.AllowHeaders))
              ELSE c1
        c3 == IF Len(config.ExposeHeaders) > 0
              THEN SetHeader(c2, "Access-Control-Expose-Headers", Join(config.ExposeHeaders))
              ELSE c2
        c4 == IF config.AllowCredentials
              THEN SetHeader(c3, "Access-Control-Allow-Credentials", "true")
              ELSE c3
    IN  IF config.MaxAge > 0
        THEN SetHeader(c4, "Access-Control-Max-Age", ToString(config.MaxAge))
        ELSE c4

\* Mutant of CORS: a preflight request is passed on like any other.
CORS_NoPreflight(config, c) ==
    LET checked == Len(config.AllowOrigins) > 0
        allowed == checked /\ OriginAllowed(config, c.origin)
        c1 == IF allowed
              THEN SetHeader(c, "Access-Control-Allow-Origin",
                             IF config.AllowOrigins[1] = "*" THEN "*" ELSE c.origin)
              ELSE c
    IN  IF checked /\ ~allowed /\ c.origin # ""
        THEN AbortWithStatus(c1, StatusForbidden)
        ELSE Next(CORSHeaders(config, c1))

\* CORS(config): the middleware function it returns, applied to a context.
CORS(config, c) ==
    LET checked == Len(config.AllowOrigins) > 0
        allowed == checked /\ OriginAllowed(config, c.origin)
        c1 == IF allowed
              THEN SetHeader(c, "Access-Control-Allow-Origin",
                             IF config.AllowOrigins[1] = "*" THEN "*" ELSE c.origin)
              ELSE c
    IN  IF checked /\ ~allowed /\ c.origin # ""
        THEN AbortWithStatus(c1, StatusForbidden)
        ELSE LET c2 == CORSHeaders(config, c1) IN
             IF c.method = "OPTIONS"
             THEN AbortWithStatus(c2, StatusNoContent)
             ELSE Next(c2)

\* Mutant of ErrorHandler: the first recorded error decides.
ErrorHandler_FirstError(c) ==
    LET c1 == Next(c) IN
    IF c1.panic # << >> THEN c1
    ELSE IF Len(c1.errors) > 0
         THEN LET err == c1.errors[1] IN
              IF err.isApp THEN ErrorResponse(c1, err)
                           ELSE ErrorResponse(c1, NewInternalError(err))
         ELSE c1

\* ErrorHandler(): what follows c.Next() is skipped while a panic unwinds.
ErrorHandler(c) ==
    LET c1 == Next(c) IN
    IF c1.panic # << >> THEN c1
    ELSE IF Len(c1.errors) > 0
         THEN LET err == c1.errors[Len(c1.errors)] IN
              IF err.isApp THEN ErrorResponse(c1, err)
                           ELSE ErrorResponse(c1, NewInternalError(err))
         ELSE c1

\* Mutant of RecoveryHandler: no deferred recover.
RecoveryHandler_NoRecover(c) == Next(c)

\* RecoveryHandler(): the deferred function runs when c.Next() panicked.
RecoveryHandler(c) ==
    LET c1 == Next(c) IN
    IF c1.panic = << >> THEN c1
    ELSE LET v == c1.panic[1]
             appErr == IF v.isError
                       THEN NewInternalError(NewError(v.text))
                       ELSE [isApp |-> TRUE, Code |-> ErrCodeInternal,
                             Message |-> GetMessage(heap[1], MsgInternalError, << >>),
                             StatusCode |-> StatusInternalServerError,
                             Details |-> MapPut(<< >>, "panic", <<v.text>>)]
         IN  Abort(ErrorResponse([c1 EXCEPT !.panic = << >>], appErr))

\* RequestLogger(): the entry is written after c.Next() has returned.
RequestLogger(c) ==
    LET c1 == Next(c) IN
    IF c1.panic # << >> THEN c1
    ELSE LET statusCode == c1.status
             level == IF statusCode >= 400 /\ statusCode < 500 THEN "Warn"
                      ELSE IF statusCode >= 500 THEN "Error" ELSE "Info"
         IN  [c1 EXCEPT !.logs = Append(@, [level |-> level, status |-> statusCode,
                                           error |-> Len(c1.errors) > 0])]

\* What a route handler does with its context.
Behaviours ==
    {"respond", "app_error", "error", "error_then_app_error", "app_error_then_error",
     "panic_string", "panic_error"}

\* A route handler written as the handler layer prescribes: it records its
\* errors with c.Error and returns, responds last, and may panic before that.
RouteHandler(c) ==
    CASE c.behaviour = "respond" ->
             SuccessResponse(c, StatusOK, GetMessage(heap[1], MsgSuccess, << >>), "vehicle")
      [] c.behaviour = "app_error" -> Error(c, NewNotFoundError("vehicle"))
      [] c.behaviour = "error" -> Error(c, NewError("generic error"))
      [] c.behaviour = "error_then_app_error" ->
             Error(Error(c, NewError("generic error")), NewNotFoundError("vehicle"))
      [] c.behaviour = "app_error_then_error" ->
             Error(Error(c, NewNotFoundError("vehicle")), NewError("generic error"))
      [] c.behaviour = "panic_string" ->
             Panic(c, [isError |-> FALSE, text |-> "something went wrong"])
      [] c.behaviour = "panic_error" ->
             Panic(c, [isError |-> TRUE, text |-> "error panic"])

\* Mutant of HandlersChain: ErrorHandler is registered before RequestLogger.
HandlersChain_ErrorHandlerEarly ==
    <<"RecoveryHandler", "ErrorHandler", "RequestLogger", "CORS", "handler">>

\* SetupRouter(): the global middlewares in the order of router.Use, then
\* the route's handler.
HandlersChain == <<"RecoveryHandler", "RequestLogger", "CORS", "ErrorHandler", "handler">>

\* One member of the chain is entered.
RunHandler(name, c) ==
    LET c1 == [c EXCEPT !.trace = Append(@, name)] IN
    CASE name = "RecoveryHandler" -> RecoveryHandler(c1)
      [] name = "RequestLogger"   -> RequestLogger(c1)
      [] name = "CORS"            -> CORS(cors, c1)
      [] name = "ErrorHandler"    -> ErrorHandler(c1)
      [] name = "handler"         -> RouteHandler(c1)

\* The loop of c.Next(): members run while the index is inside the chain; a
\* panic leaves the loop at once.
RECURSIVE NextLoop(_)
NextLoop(c) ==
    IF c.index > Len(HandlersChain) THEN c
    ELSE LET c1 == RunHandler(HandlersChain[c.index], c) IN
         IF c1.panic # << >> THEN c1
         ELSE NextLoop([c1 EXCEPT !.index = @ + 1])

Next(c) == NextLoop([c EXCEPT !.index = @ + 1])

\* Engine.ServeHTTP: the chain runs on a fresh context, then the header is
\* written if nothing wrote it.
ServeHTTP(c) ==
    LET c1 == Next(c) IN
    IF c1.panic = << >> /\ ~c1.written THEN WriteHeaderNow(c1) ELSE c1

Methods == {"GET", "OPTIONS"}
Origins == {"", "https://example.com", "https://app.example.com", "https://evil.com"}

\* The configurations a router is built with.
CORSConfigs ==
    {DefaultCORSConfig,
     ProductionCORSConfig(<<"https://example.com", "https://app.example.com">>),
     ProductionCORSConfig(<< >>)}

\* The server receives and answers one request.
Serve(method, origin, behaviour) ==
    /\ Len(exchanges) < MaxRequests
    /\ exchanges' = Append(exchanges, ServeHTTP(NewContext(method, origin, behaviour)))
    /\ UNCHANGED <<cors, now, tripVars, schedVars, genVars, assignVars, callVars, msgVars, cfgVars>>

(***************************************************************************)
(* Specifications                                                          *)
(***************************************************************************)
HttpIdle ==
    /\ cors = DefaultCORSConfig
    /\ exchanges = << >>

CfgIdle ==
    /\ env = << >>
    /\ cfg = << >>
    /\ cfgErr = "nil"
    /\ cfgOp = ""

MsgIdle ==
    /\ heap = <<InitialMessages>>
    /\ held = 0
    /\ mOp = ""
    /\ mKey = ""
    /\ mResult = << >>

CallIdle ==
    /\ holder = 0
    /\ cpc = [c \in Callers |-> "idle"]
    /\ creq = [c \in Callers |-> "Start"]
    /\ cok = [c \in Callers |-> FALSE]
    /\ cres = [c \in Callers |-> ""]

\* Values of the variables of the later specifications when unused.
ExtraIdle == CallIdle /\ MsgIdle /\ CfgIdle /\ HttpIdle

\* Values of the variables a specification does not use.
IdleTrip == NewTrip("S1", 0, "V1", "A", "nil", 0)
IdleSchedule == NewSchedule("S1", << >>, "R1", "V1", "A", 0)
IdleAssignment == NewDriverAssignment("S1", "G", 0, 0, 0)

AssignIdle ==
    /\ da = IdleAssignment
    /\ aOp = "NewDriverAssignment"
    /\ aArg = NoTime
    /\ aErr = "nil"
    /\ aResult = FALSE
    /\ aDriver = ""

TripIdle ==
    /\ trip = IdleTrip
    /\ lastOp = "NewTrip"
    /\ lastErr = "nil"
    /\ lastArgs = NoArgs
    /\ path = <<TripStatusPending>>
    /\ duration = 0

SchedIdle ==
    /\ sched = IdleSchedule
    /\ qDate = NoTime
    /\ qResult = FALSE

GenIdle ==
    /\ pc = [p \in Procs |-> "idle"]
    /\ runDate = [p \in Procs |-> 0]
    /\ runList = [p \in Procs |-> << >>]
    /\ runIdx = [p \in Procs |-> 1]
    /\ runExisting = [p \in Procs |-> {}]
    /\ runCreated = [p \in Procs |-> {}]
    /\ runRejected = [p \in Procs |-> {}]
    /\ runSkipped = [p \in Procs |-> << >>]
    /\ runWarnings = [p \in Procs |-> << >>]
    /\ tripStore = << >>
    /\ runs = 0
    /\ changes = 0

\* One trip, freshly built by NewTrip, under any sequence of lifecycle calls.
InitTrip ==
    /\ now = 0
    /\ \E attendant \in {"nil", "T"} :
           trip = NewTrip("S1", 0, "V1", "A", attendant, 0)
    /\ lastOp = "NewTrip"
    /\ lastErr = "nil"
    /\ lastArgs = NoArgs
    /\ path = <<TripStatusPending>>
    /\ duration = 0
    /\ SchedIdle
    /\ schedules = [id \in ScheduleIDs |-> IdleSchedule]
    /\ assignments = {}
    /\ GenIdle
    /\ AssignIdle
    /\ ExtraIdle

NextTrip ==
    \/ \E startedBy \in StarterIDs , location \in Locations : Start(startedBy, location)
    \/ \E location \in Locations : Complete(location)
    \/ \E reason \in Reasons : Cancel(reason)
    \/ GetDuration

SpecTrip == InitTrip /\ [][NextTrip]_vars

\* One schedule, as loaded or built, under its setters and IsActiveOnDate queries.
InitSchedule ==
    /\ now = 0
    /\ \E days \in DaysChoices , status \in {ScheduleStatusActive, ScheduleStatusInactive} ,
          deleted \in {NoTime, 0} ,
          from \in PeriodBounds \cup {NoTime} , to \in PeriodBounds \cup {NoTime} :
           sched = [NewSchedule("S1", days, "R1", "V1", "A", 0) EXCEPT
                       !.Status = status, !.DeletedAt = deleted,
                       !.ValidFrom = from, !.ValidTo = to]
    /\ qDate = NoTime
    /\ qResult = FALSE
    /\ TripIdle
    /\ schedules = [id \in ScheduleIDs |-> IdleSchedule]
    /\ assignments = {}
    /\ GenIdle
    /\ AssignIdle
    /\ ExtraIdle

NextSchedule ==
    \/ SetActive
    \/ SetInactive
    \/ UpdateDaysOfWeek
    \/ SetValidPeriod
    \/ ClearValidPeriod
    \/ QueryActiveOnDate

SpecSchedule == InitSchedule /\ [][NextSchedule]_vars

\* The schedules and assignments the two IsActiveOnDate methods are asked about.
QueriedSchedules ==
    { [NewSchedule("S1", days, "R1", "V1", "A", 0) EXCEPT
          !.Status = status, !.DeletedAt = deleted,
          !.ValidFrom = period[1], !.ValidTo = period[2]] :
      days \in {<<1, 2, 3, 4, 5>>, <<6, 7>>},
      status \in {ScheduleStatusActive, ScheduleStatusInactive},
      deleted \in {NoTime, 0},
      period \in {<<NoTime, NoTime>>, <<0, Midnight(1)>>} }

QueriedAssignments ==
    { [NewDriverAssignment("S1", "G", 0, endDate, 0) EXCEPT !.DeletedAt = deleted] :
      endDate \in {0, Midnight(1)}, deleted \in {NoTime, 0} }

\* One schedule and one assignment, as loaded, under IsActiveOnDate queries only.
InitQueries ==
    /\ now = 0
    /\ sched \in QueriedSchedules
    /\ qDate = NoTime
    /\ qResult = FALSE
    /\ da \in QueriedAssignments
    /\ aOp = "NewDriverAssignment"
    /\ aArg = NoTime
    /\ aErr = "nil"
    /\ aResult = FALSE
    /\ aDriver = ""
    /\ TripIdle
    /\ schedules = [id \in ScheduleIDs |-> IdleSchedule]
    /\ assignments = {}
    /\ GenIdle
    /\ ExtraIdle

NextQueries ==
    \/ QueryActiveOnDate
    \/ QueryAssignment

SpecQueries == InitQueries /\ [][NextQueries]_vars

\* Concurrent and repeated CreateTripForDate invocations over one snapshot.
InitGen ==
    /\ now = 0
    /\ schedules \in ScheduleSnapshots
    /\ assignments \in SUBSET AssignmentChoices
    /\ GenIdle
    /\ TripIdle
    /\ SchedIdle
    /\ AssignIdle
    /\ ExtraIdle

NextGen ==
    \/ \E p \in Procs : Invoke(p)
    \/ \E p \in Procs : Iterate(p)
    \/ \E p \in Procs : Return(p)

SpecGen == InitGen /\ [][NextGen]_vars

\* The same invocations over snapshots in which a schedule's create fails for
\* a reason other than a duplicate.
InitGenFail ==
    /\ now = 0
    /\ schedules \in FailingSnapshots
    /\ assignments \in SUBSET AssignmentChoices
    /\ GenIdle
    /\ TripIdle
    /\ SchedIdle
    /\ AssignIdle
    /\ ExtraIdle

SpecGenFail == InitGenFail /\ [][NextGen]_vars

\* One pending trip and NumCallers callers, each making one lifecycle call
\* under the trip's lock.
InitCallers ==
    /\ now = 0
    /\ TripIdle
    /\ CallIdle
    /\ SchedIdle
    /\ schedules = [id \in ScheduleIDs |-> IdleSchedule]
    /\ assignments = {}
    /\ GenIdle
    /\ AssignIdle
    /\ MsgIdle
    /\ CfgIdle
    /\ HttpIdle

NextCallers ==
    \/ \E c \in Callers , op \in CallerOps : Call(c, op)
    \/ \E c \in Callers : Lock(c)
    \/ \E c \in Callers : Finish(c)

SpecCallers == InitCallers /\ [][NextCallers]_vars

\* The registry as the package initialises it, under GetMessage, AddMessage,
\* GetAllMessages and a caller writing to the map it was handed.
InitMessages ==
    /\ now = 0
    /\ MsgIdle
    /\ CallIdle
    /\ CfgIdle
    /\ HttpIdle
    /\ TripIdle
    /\ SchedIdle
    /\ schedules = [id \in ScheduleIDs |-> IdleSchedule]
    /\ assignments = {}
    /\ GenIdle
    /\ AssignIdle

NextMessages ==
    \/ \E key \in CallKeys , args \in CallArgs : GetMessageCall(key, args)
    \/ \E key \in CallKeys , message \in CallTexts : AddMessage(key, message)
    \/ GetAllMessagesCall
    \/ \E key \in CallKeys \cup {"NEW_KEY"} , message \in CallTexts : HeldPut(key, message)
    \/ \E key \in CallKeys : HeldDelete(key)

SpecMessages == InitMessages /\ [][NextMessages]_vars

\* A process that starts with any environment, changes it and loads its
\* configuration.
InitConfig ==
    /\ now = 0
    /\ env \in {e \in UNION {[ks -> UNION {EnvValues(k) : k \in SetKeys}] : ks \in SUBSET {"ENVIRONMENT", "LOG_LEVEL"}} :
                  \A k \in DOMAIN e : e[k] \in EnvValues(k)}
    /\ cfg = << >>
    /\ cfgErr = "nil"
    /\ cfgOp = ""
    /\ HttpIdle
    /\ MsgIdle
    /\ CallIdle
    /\ TripIdle
    /\ SchedIdle
    /\ schedules = [id \in ScheduleIDs |-> IdleSchedule]
    /\ assignments = {}
    /\ GenIdle
    /\ AssignIdle

NextConfig ==
    \/ \E key \in SetKeys : \E value \in EnvValues(key) : Setenv(key, value)
    \/ \E key \in SetKeys : Unsetenv(key)
    \/ LoadCall

SpecConfig == InitConfig /\ [][NextConfig]_vars

\* A router built with one of the CORS configurations serves requests.
InitHttp ==
    /\ now = 0
    /\ cors \in CORSConfigs
    /\ exchanges = << >>
    /\ MsgIdle
    /\ CallIdle
    /\ CfgIdle
    /\ TripIdle
    /\ SchedIdle
    /\ schedules = [id \in ScheduleIDs |-> IdleSchedule]
    /\ assignments = {}
    /\ GenIdle
    /\ AssignIdle

NextHttp ==
    \E method \in Methods, origin \in Origins, behaviour \in Behaviours :
        Serve(method, origin, behaviour)

SpecHttp == InitHttp /\ [][NextHttp]_vars

\* Generation re-run after default drivers and overrides were changed; runs
\* and changes do not overlap here (overlapping runs are SpecGen's).
InitRegen ==
    /\ now = 0
    /\ schedules = [id \in ScheduleIDs |->
                       NewSchedule(id, <<1, 2, 3, 4, 5>>, "R1", "V1", "A", 0)]
    /\ assignments \in SUBSET AssignmentChoices
    /\ GenIdle
    /\ TripIdle
    /\ SchedIdle
    /\ AssignIdle
    /\ ExtraIdle

\* No invocation is inside its loop: runs and changes follow one another.
Quiet == \A p \in Procs : pc[p] # "loop"

\* The one caller that runs generation again and again.
Rerunner == 1

NextRegen ==
    \/ Quiet /\ Invoke(Rerunner)
    \/ Iterate(Rerunner)
    \/ Return(Rerunner)
    \/ \E id \in ScheduleIDs , driverID \in DefaultDrivers : Quiet /\ AssignDriver(id, driverID)
    \/ \E a \in AssignmentChoices : Quiet /\ CreateOverride(a)
    \/ \E a \in assignments , newEndDate \in GenDates : Quiet /\ ExtendOverride(a, newEndDate)
    \/ \E a \in assignments , newEndDate \in GenDates : Quiet /\ ShortenOverride(a, newEndDate)
    \/ \E a \in assignments : Quiet /\ SoftDeleteOverride(a)

SpecRegen == InitRegen /\ [][NextRegen]_vars

\* The same invocations over snapshots whose overrides of one schedule overlap.
InitGenOverlap ==
    /\ now = 0
    /\ schedules \in ScheduleSnapshots
    /\ assignments \in SUBSET OverlappingChoices
    /\ GenIdle
    /\ TripIdle
    /\ SchedIdle
    /\ AssignIdle
    /\ ExtraIdle

SpecGenOverlap == InitGenOverlap /\ [][NextGen]_vars

\* One override, as NewDriverAssignment builds it from any two dates (or as
\* loaded soft-deleted), under ExtendPeriod, ShortenPeriod, IsActiveOnDate and
\* driver resolution.
InitAssign ==
    /\ now = 0
    /\ \E startDate \in StartInstants , endDate \in Instants , deleted \in {NoTime, 0} :
           da = [NewDriverAssignment("S1", "G", startDate, endDate, 0) EXCEPT
                    !.DeletedAt = deleted]
    /\ aOp = "NewDriverAssignment"
    /\ aArg = NoTime
    /\ aErr = "nil"
    /\ aResult = FALSE
    /\ aDriver = ""
    /\ TripIdle
    /\ SchedIdle
    /\ schedules = [id \in ScheduleIDs |-> IdleSchedule]
    /\ assignments = {}
    /\ GenIdle
    /\ ExtraIdle

NextAssign ==
    \/ ExtendPeriod
    \/ ShortenPeriod
    \/ QueryAssignment
    \/ ResolveDriver

SpecAssign == InitAssign /\ [][NextAssign]_vars

\* One Trip created at clock 0 with NumPassengers passenger records (passenger
\* ids are 1 .. NumPassengers), under its lifecycle calls and the boarding
\* calls on its records, all made at clock MaxClock.
InitBoard ==
    /\ trip = [NewTrip("S1", 0, "V1", "A", "nil", 0) EXCEPT
                 !.TripPassengers = [i \in 1 .. NumPassengers |->
                                        NewTripPassenger("", i, "stop", 0)]]
    /\ now = MaxClock
    /\ lastOp = "NewTrip"
    /\ lastErr = "nil"
    /\ lastArgs = NoArgs
    /\ path = <<TripStatusPending>>
    /\ duration = 0
    /\ SchedIdle
    /\ schedules = [id \in ScheduleIDs |-> IdleSchedule]
    /\ assignments = {}
    /\ GenIdle
    /\ AssignIdle
    /\ ExtraIdle

NextBoard ==
    \/ Start("driver:A", "L1")
    \/ Complete("L1")
    \/ Cancel("weather")
    \/ \E i \in 1 .. NumPassengers : BoardPassenger(i)
    \/ \E i \in 1 .. NumPassengers : AlightPassenger(i)
    \/ \E i \in 1 .. NumPassengers , reason \in NoShowReasons : MarkNoShow(i, reason)
    \/ \E i \in 1 .. NumPassengers : GetBoardingDuration(i)

SpecBoard == InitBoard /\ [][NextBoard]_vars

(***************************************************************************)
(* Claims                                                                  *)
(***************************************************************************)
\* The ids of a list of schedules.
ListedIDs(list) == { list[i].ID : i \in 1 .. Len(list) }

\* The positions of the store holding a non-deleted trip for (id, date).
TripsFor(id, date) ==
    { i \in 1 .. Len(tripStore) :
        /\ tripStore[i].ScheduleID = id
        /\ tripStore[i].Date = date
        /\ tripStore[i].DeletedAt = NoTime }

\* Whether a skipped list names schedule id with the given reason.
Reported(skipped, id, reason) ==
    \E k \in 1 .. Len(skipped) : skipped[k] = <<id, reason>>

C2_DuplicateCreateIsSkipped ==
    \A p \in Procs :
        pc[p] = "done" =>
            /\ \A id \in ScheduleIDs :
                   IsActiveOnDate(schedules[id], runDate[p]) =>
                       Cardinality(TripsFor(id, runDate[p])) = 1
            /\ runCreated[p] \cup runRejected[p] = ListedIDs(runList[p])
            /\ \A id \in runRejected[p] : Reported(runSkipped[p], id, "already generated")

\* C3: generation is idempotent: an invocation for date D that finds a trip
\* for (schedule, D) already stored leaves that trip the only one, does not
\* create a trip for that schedule, and reports the schedule as skipped with
\* reason "already generated".
C3_SecondCallSkips ==
    \A p \in Procs :
        pc[p] = "done" =>
            \A id \in runExisting[p] :
                /\ Cardinality(TripsFor(id, runDate[p])) = 1
                /\ id \notin runCreated[p]
                /\ Reported(runSkipped[p], id, "already generated")

\* C4: Trip.Cancel succeeds exactly when the status is pending or in_progress,
\* and then sets status cancelled and records the cancellation time and reason;
\* from completed or cancelled it fails.
C4_CancelLegality ==
    [][ lastOp' = "Cancel" =>
          IF trip.Status \in {TripStatusPending, TripStatusInProgress}
          THEN /\ lastErr' = "nil"
               /\ trip'.Status = TripStatusCancelled
               /\ trip'.CancelledAt = now'
               /\ trip'.CancellationReason = lastArgs'.reason
          ELSE lastErr' # "nil" ]_vars

\* C5: Trip.Start succeeds only from pending, and then sets status in_progress
\* and records the start time, the starter and the start location; from any
\* other status it fails, so a Start on a trip that was started before fails.
C5_StartLegality ==
    [][ lastOp' = "Start" =>
          /\ IF trip.Status = TripStatusPending
             THEN /\ lastErr' = "nil"
                  /\ trip'.Status = TripStatusInProgress
                  /\ trip'.StartedAt = now'
                  /\ trip'.StartedBy = lastArgs'.startedBy
                  /\ trip'.ActualStartLocation = lastArgs'.location
             ELSE lastErr' # "nil"
          /\ (trip.StartedAt # NoTime => lastErr' # "nil") ]_vars

\* C5 witness: a second Start was refused on a trip that is in progress.
C5_Witness ==
    /\ lastOp = "Start"
    /\ lastErr # "nil"
    /\ trip.Status = TripStatusInProgress
    /\ trip.StartedAt # NoTime

\* C6: Trip.Complete succeeds only from in_progress, and then sets status
\* completed and records the completion time and end location; from any other
\* status it fails, and a completed trip has always been started.
C6_CompleteLegality ==
    /\ [][ lastOp' = "Complete" =>
             IF trip.Status = TripStatusInProgress
             THEN /\ lastErr' = "nil"
                  /\ trip'.Status = TripStatusCompleted
                  /\ trip'.CompletedAt = now'
                  /\ trip'.ActualEndLocation = lastArgs'.location
             ELSE lastErr' # "nil" ]_vars
    /\ [](trip.Status = TripStatusCompleted => trip.StartedAt # NoTime)

\* C6 witness: a Complete succeeded on a started trip.
C6_Witness ==
    /\ lastOp = "Complete"
    /\ lastErr = "nil"
    /\ trip.Status = TripStatusCompleted
    /\ trip.CompletedAt # NoTime

\* C7: a Start, Complete or Cancel that returns an error changes no field of
\* the Trip.
C7_ErrorLeavesTripUnchanged ==
    [][ lastErr' # "nil" => trip' = trip ]_vars

\* C7 witness: a call was refused on a trip whose record already holds a
\* start and a completion.
C7_Witness ==
    /\ lastErr # "nil"
    /\ lastOp \in {"Start", "Complete", "Cancel"}
    /\ trip.Status = TripStatusCompleted
    /\ trip.UpdatedAt < now

\* The status histories a trip may have.
LegalPaths ==
    { <<TripStatusPending>>,
      <<TripStatusPending, TripStatusInProgress>>,
      <<TripStatusPending, TripStatusCancelled>>,
      <<TripStatusPending, TripStatusInProgress, TripStatusCompleted>>,
      <<TripStatusPending, TripStatusInProgress, TripStatusCancelled>> }

\* C8: completed and cancelled are terminal (no call changes the status of a
\* completed or cancelled trip), and the only status histories from NewTrip
\* are the five legal paths.
C8_TerminalAndPaths ==
    /\ [][ trip.Status \in {TripStatusCompleted, TripStatusCancelled} =>
             trip'.Status = trip.Status ]_vars
    /\ [](path \in LegalPaths)

\* C8 witness: a Cancel was attempted on a completed trip.
C8_Witness ==
    /\ trip.Status = TripStatusCompleted
    /\ lastOp = "Cancel"
    /\ path = <<TripStatusPending, TripStatusInProgress, TripStatusCompleted>>

\* The weekday of an instant numbered 1 = Monday .. 7 = Sunday.
IsoWeekday(t) == (DayOf(t) % 7) + 1

\* The members of a recurrence slice.
DaySet(days) == { days[i] : i \in 1 .. Len(days) }

\* C9: IsActiveOnDate(date) is true iff the schedule is active, not
\* soft-deleted, date is not before ValidFrom and not after ValidTo (when set),
\* and the weekday of date (1 = Monday .. 7 = Sunday) is in DaysOfWeek.
C9_ActiveOnDateIff ==
    qDate # NoTime =>
        ( qResult <=>
            /\ sched.Status = ScheduleStatusActive
            /\ sched.DeletedAt = NoTime
            /\ (sched.ValidFrom = NoTime \/ qDate >= sched.ValidFrom)
            /\ (sched.ValidTo = NoTime \/ qDate <= sched.ValidTo)
            /\ IsoWeekday(qDate) \in DaySet(sched.DaysOfWeek) )

\* C9 witness: a schedule recurring on {6, 7} was found active on a Sunday.
C9_Witness ==
    /\ qDate # NoTime
    /\ qResult
    /\ IsoWeekday(qDate) = 7
    /\ sched.DaysOfWeek = <<6, 7>>

\* C10: the validity window is compared by calendar day: a schedule in force
\* whose ValidFrom and ValidTo both lie on day D, a day of its recurrence, is
\* active at every instant of D and at no instant of any other day.
C10_WindowByCalendarDay ==
    ( /\ qDate # NoTime
      /\ IsActive(sched)
      /\ sched.ValidFrom # NoTime
      /\ sched.ValidTo # NoTime
      /\ DayOf(sched.ValidFrom) = DayOf(sched.ValidTo)
      /\ IsoWeekday(sched.ValidFrom) \in DaySet(sched.DaysOfWeek) )
    => ( qResult <=> DayOf(qDate) = DayOf(sched.ValidFrom) )


\* C11: DriverAssignment.IsActiveOnDate(D) is true exactly when the assignment
\* is not soft-deleted and the calendar day of D lies in the inclusive range
\* [day(StartDate), day(EndDate)], whatever the time of day of the three.
C11_AssignmentActiveIff ==
    aOp = "IsActiveOnDate" =>
        (aResult <=> /\ da.DeletedAt = NoTime
                     /\ DayOf(da.StartDate) <= DayOf(aArg)
                     /\ DayOf(aArg) <= DayOf(da.EndDate))

\* A query on the end day, at a later time of day than EndDate, answered true.
C11_Witness ==
    /\ aOp = "IsActiveOnDate"
    /\ aResult
    /\ DayOf(aArg) = DayOf(da.EndDate)
    /\ aArg > da.EndDate
    /\ DayOf(da.StartDate) < DayOf(da.EndDate)

\* The override of the scenario: days D .. D+4 with D = day 1, not deleted.
ScenarioOverride ==
    /\ da.DeletedAt = NoTime
    /\ DayOf(da.StartDate) = 1
    /\ DayOf(da.EndDate) = 5

\* C12: the driver resolved for a date is the override's driver when the
\* override of the schedule is active on the date, and the schedule's default
\* driver when it is not; with the override on days D .. D+4 that is B on D,
\* D+2 and D+4 and A on D-1 and D+5.
C12_OverridePrecedence ==
    aOp = "ResolveDriver" =>
        /\ aDriver = IF AssignmentIsActiveOnDate(da, aArg)
                     THEN da.DriverID
                     ELSE OverriddenSchedule.DefaultDriverID
        /\ ScenarioOverride =>
              /\ DayOf(aArg) \in {1, 3, 5} => aDriver = da.DriverID
              /\ DayOf(aArg) \in {0, 6} => aDriver = OverriddenSchedule.DefaultDriverID

\* The last day of the override resolves to the substitute.
C12_Witness ==
    /\ aOp = "ResolveDriver"
    /\ ScenarioOverride
    /\ DayOf(aArg) = 5
    /\ aDriver = "G"
    /\ aDriver # OverriddenSchedule.DefaultDriverID

\* C13: every DriverAssignment built by NewDriverAssignment and then put
\* through ExtendPeriod and ShortenPeriod calls has StartDate <= EndDate.
C13_StartNotAfterEnd == ~After(da.StartDate, da.EndDate)

\* C14: ExtendPeriod(newEnd) fails exactly when newEnd is before StartDate or
\* before the current EndDate, ShortenPeriod(newEnd) exactly when newEnd is
\* before StartDate or after the current EndDate; a failure changes no field,
\* a success sets EndDate to newEnd and touches nothing but UpdatedAt besides;
\* ExtendPeriod never decreases EndDate and ShortenPeriod never increases it.
PeriodCallEffect(failed) ==
    /\ failed <=> aErr' # "nil"
    /\ failed => da' = da
    /\ ~failed => da' = [da EXCEPT !.EndDate = aArg', !.UpdatedAt = now]

C14_PeriodChanges ==
    [][ /\ aOp' = "ExtendPeriod" =>
            /\ PeriodCallEffect(aArg' < da.StartDate \/ aArg' < da.EndDate)
            /\ da'.EndDate >= da.EndDate
        /\ aOp' = "ShortenPeriod" =>
            /\ PeriodCallEffect(aArg' < da.StartDate \/ aArg' > da.EndDate)
            /\ da'.EndDate <= da.EndDate ]_vars

\* An extension refused only for ending before the current end.
C14_Witness ==
    /\ aOp = "ExtendPeriod"
    /\ aErr = "new end date must be after current end date"
    /\ aArg < da.EndDate
    /\ aArg >= da.StartDate


\* The part of a TripPassenger the boarding calls decide: flags, timestamps
\* and no-show reason.
BoardingState(tp) ==
    <<tp.IsBoarded, tp.BoardedAt, tp.IsAlighted, tp.AlightedAt, tp.NoShowReason>>

PassengerOps == {"BoardPassenger", "AlightPassenger", "MarkNoShow"}

\* C15: no TripPassenger is at once boarded and marked no-show.
C15_BoardedExcludesNoShow ==
    \A i \in DOMAIN trip.TripPassengers :
        ~(trip.TripPassengers[i].IsBoarded /\ trip.TripPassengers[i].NoShowReason # "")

\* C16: no TripPassenger is alighted without being boarded.
C16_AlightedImpliesBoarded ==
    \A i \in DOMAIN trip.TripPassengers :
        trip.TripPassengers[i].IsAlighted => trip.TripPassengers[i].IsBoarded

\* C17: once the trip is completed or cancelled, no call changes the flags,
\* timestamps or no-show reason of any of its TripPassenger records.
C17_FrozenAfterTerminal ==
    [][ trip.Status \in {TripStatusCompleted, TripStatusCancelled} =>
            \A i \in DOMAIN trip.TripPassengers :
                BoardingState(trip'.TripPassengers[i]) = BoardingState(trip.TripPassengers[i]) ]_vars

\* C18: a boarding call on one TripPassenger leaves every other TripPassenger
\* of the trip as it was, and the trip's status (and the rest of the Trip) too.
C18_BoardingIndependence ==
    [][ lastOp' \in PassengerOps =>
            /\ DOMAIN trip'.TripPassengers = DOMAIN trip.TripPassengers
            /\ \A j \in DOMAIN trip.TripPassengers :
                   j # lastArgs'.passenger => trip'.TripPassengers[j] = trip.TripPassengers[j]
            /\ trip'.Status = trip.Status
            /\ [trip' EXCEPT !.TripPassengers = << >>] = [trip EXCEPT !.TripPassengers = << >>] ]_vars

\* Passenger 1 boarded and alighted on a started trip while passenger 2 is
\* still as created.
C18_Witness ==
    /\ lastOp = "AlightPassenger"
    /\ lastArgs.passenger = 1
    /\ trip.Status = TripStatusInProgress
    /\ trip.TripPassengers[1].IsBoarded
    /\ trip.TripPassengers[1].IsAlighted
    /\ trip.TripPassengers[2] = NewTripPassenger("", 2, "stop", 0)


\* The schedules whose create failed in invocation p for lack of a vehicle.
FailedIDs(p) == { id \in runRejected[p] : schedules[id].VehicleID = "" }

\* The drivers resolution may give schedule id on date.
ResolvedDrivers(id, date) ==
    { EffectiveDriver(schedules[id], a) : a \in GetForDate(id, date) }

\* The listed schedules other than the failing ones each have their one trip.
C19_OthersProcessed(p) ==
    \A id \in ListedIDs(runList[p]) :
        schedules[id].VehicleID # "" =>
            /\ id \in runCreated[p] \cup runRejected[p]
            /\ Cardinality(TripsFor(id, runDate[p])) = 1

\* The trips an invocation created are still in the store.
C19_NotRolledBack(p) ==
    \A id \in runCreated[p] : TripsFor(id, runDate[p]) # {}

\* The failing schedules are named in skipped with some reason.
C19_FailureReported(p) ==
    \A id \in FailedIDs(p) :
        \E k \in 1 .. Len(runSkipped[p]) : runSkipped[p][k][1] = id /\ runSkipped[p][k][2] # ""

\* C19: when the create of one schedule of a batch fails (missing vehicle
\* reference), the finished invocation has recorded that schedule in skipped
\* with a reason, has processed every other schedule as without the failing
\* one, and the trips it created are not rolled back.
C19_PartialFailureIsolation ==
    \A p \in Procs :
        /\ C19_NotRolledBack(p)
        /\ pc[p] = "done" =>
              /\ C19_OthersProcessed(p)
              /\ C19_FailureReported(p)

\* The trip of schedule id for date is one pending trip with a resolved driver.
C20_OnePendingTrip(id, date) ==
    /\ Cardinality(TripsFor(id, date)) = 1
    /\ \A i \in TripsFor(id, date) :
           /\ tripStore[i].Status = TripStatusPending
           /\ tripStore[i].AssignedDriverID \in ResolvedDrivers(id, date)

\* C20: a finished invocation for date D has, for each schedule that had no
\* trip for D: recorded it as skipped with reason "not scheduled" and created
\* no trip if the schedule is not active on D, and otherwise left exactly one
\* pending trip whose driver is the one resolved for D.
C20_NotScheduledOrOneTrip ==
    \A p \in Procs :
        pc[p] = "done" =>
            \A id \in ScheduleIDs \ runExisting[p] :
                IF IsActiveOnDate(schedules[id], runDate[p])
                THEN C20_OnePendingTrip(id, runDate[p])
                ELSE /\ TripsFor(id, runDate[p]) = {}
                     /\ id \notin runCreated[p]
                     /\ Reported(runSkipped[p], id, "not scheduled")


\* The overrides of schedule id that are active on date.
ActiveOverrides(id, date) ==
    { a \in assignments : a.ScheduleID = id /\ AssignmentIsActiveOnDate(a, date) }

\* Among several active overrides, those with the latest StartDate.
LatestStart(overrides) ==
    { a \in overrides : \A b \in overrides : ~After(b.StartDate, a.StartDate) }

\* The stored trip of a schedule with several active overrides has the driver
\* of the one that starts last.
C21_LatestStartWins(p) ==
    \A id \in ListedIDs(runList[p]) :
        Cardinality(ActiveOverrides(id, runDate[p])) > 1 =>
            \A i \in TripsFor(id, runDate[p]) :
                \E a \in LatestStart(ActiveOverrides(id, runDate[p])) :
                    tripStore[i].AssignedDriverID = a.DriverID

\* The invocation that resolved among several active overrides has a warning
\* naming the schedule.
C21_WarningSignalled(p) ==
    \A id \in ListedIDs(runList[p]) :
        Cardinality(ActiveOverrides(id, runDate[p])) > 1 =>
            \E k \in 1 .. Len(runWarnings[p]) : runWarnings[p][k] = id

\* Every listed schedule was gone through and has its one trip.
C21_BatchNotFailed(p) ==
    /\ runCreated[p] \cup runRejected[p] = ListedIDs(runList[p])
    /\ \A id \in ListedIDs(runList[p]) : Cardinality(TripsFor(id, runDate[p])) = 1

\* C21: when several overrides of a schedule are active on the date, a
\* finished invocation has given the trip the driver of the override with the
\* latest StartDate, has signalled a warning, and has not failed the batch.
C21_OverlapTieBreak ==
    \A p \in Procs :
        pc[p] = "done" =>
            /\ C21_LatestStartWins(p)
            /\ C21_WarningSignalled(p)
            /\ C21_BatchNotFailed(p)


\* C22: GetDuration returns 0 when StartedAt or CompletedAt is unset and
\* otherwise the whole minutes from StartedAt to CompletedAt; on a trip reached
\* through Start/Complete/Cancel it is never negative, and it is 0 for a
\* pending, in_progress or cancelled trip.
C22_DurationWholeMinutes ==
    lastOp = "GetDuration" =>
        /\ (trip.StartedAt = NoTime \/ trip.CompletedAt = NoTime) => duration = 0
        /\ (trip.StartedAt # NoTime /\ trip.CompletedAt # NoTime) =>
               /\ duration * TicksPerMinute <= trip.CompletedAt - trip.StartedAt
               /\ trip.CompletedAt - trip.StartedAt < (duration + 1) * TicksPerMinute
        /\ duration >= 0
        /\ trip.Status # TripStatusCompleted => duration = 0

\* A completed trip that ran a minute and a fraction, reported as one minute.
C22_Witness ==
    /\ lastOp = "GetDuration"
    /\ trip.Status = TripStatusCompleted
    /\ duration = 1
    /\ trip.CompletedAt - trip.StartedAt > TicksPerMinute


Succeeded(op) == { c \in Callers : creq[c] = op /\ cres[c] = "nil" }

\* C24: with the calls of several callers applied under the trip's lock, at
\* most one Start and at most one Complete succeed in any interleaving, and
\* StartedBy is the identity passed by the Start that succeeded.
C24_OneStartOneComplete ==
    /\ Cardinality(Succeeded("Start")) <= 1
    /\ Cardinality(Succeeded("Complete")) <= 1
    /\ \A c \in Succeeded("Start") : trip.StartedBy = CallerName(c)

\* Two callers were waiting with a Start at once; one was served and the
\* other refused, and a third caller's Complete succeeded.
C24_Witness ==
    \E c1 \in Callers , c2 \in Callers , c3 \in Callers :
        /\ c1 # c2
        /\ Succeeded("Start") = {c1}
        /\ creq[c2] = "Start" /\ cres[c2] = "cannot start trip"
        /\ Succeeded("Complete") = {c3}
        /\ trip.StartedBy = CallerName(c1)


\* C29: the registry changes through AddMessage alone: a write to a map that
\* GetAllMessages returned leaves the registry, and so every later GetMessage
\* and GetAllMessages result, as it was; GetAllMessages hands out a map equal
\* to the registry; GetMessage returns the key itself for an unregistered key;
\* after AddMessage(k, m), GetMessage(k) returns m.
C29_RegistryOnlyByAddMessage ==
    [][ /\ mOp' \in {"put", "delete"} => heap'[1] = heap[1]
        /\ heap'[1] # heap[1] => mOp' = "AddMessage"
        /\ mOp' = "GetAllMessages" => heap'[held'] = heap[1]
        /\ (mOp' = "GetMessage" /\ mKey' \notin DOMAIN heap[1]) => mResult' = <<mKey'>>
        /\ mOp' = "AddMessage" =>
               \E m \in CallTexts :
                   /\ heap'[1] = MapPut(heap[1], mKey', m)
                   /\ GetMessage(heap'[1], mKey', << >>) = m ]_vars

\* The caller holds a returned map to which it added NEW_KEY and from which it
\* deleted SUCCESS, and the registry still has SUCCESS and no NEW_KEY.
C29_Witness ==
    /\ held # 0
    /\ mOp \in {"put", "delete"}
    /\ "NEW_KEY" \in DOMAIN heap[held]
    /\ MsgSuccess \notin DOMAIN heap[held]
    /\ "NEW_KEY" \notin DOMAIN heap[1]
    /\ MsgSuccess \in DOMAIN heap[1]


\* C30: config.Load returns either (nil, error) or a config that Validate
\* accepts; it returns (nil, error) whenever ENVIRONMENT is set to a value
\* outside {dev, staging, prod} or LOG_LEVEL to one outside {debug, info,
\* warn, error}, and a config otherwise; in a loaded config every variable
\* that is unset or empty has its default and every other has its value;
\* IsDevelopment and IsProduction are never both true for it.
C30_LoadValidOrNil ==
    [][ cfgOp' = "Load" =>
        LET environment == Getenv(env, "ENVIRONMENT")
            level       == Getenv(env, "LOG_LEVEL")
            rejected    == \/ environment \notin validEnvs \cup {""}
                           \/ level \notin validLogLevels \cup {""}
            fieldOf(c, key) ==
                CASE key = "SERVER_PORT" -> c.Server.Port
                  [] key = "ENVIRONMENT" -> c.Server.Environment
                  [] key = "DB_USER"     -> c.Database.User
                  [] key = "DB_NAME"     -> c.Database.DBName
                  [] key = "LOG_LEVEL"   -> c.Log.Level
                  [] key = "LOG_FORMAT"  -> c.Log.Format
        IN  /\ (cfg' = << >>) # (cfgErr' = "nil")
            /\ rejected <=> cfg' = << >>
            /\ cfg' # << >> =>
                 /\ ConfigValidate(cfg'[1]) = "nil"
                 /\ cfg'[1].Server.Environment \in validEnvs
                 /\ cfg'[1].Log.Level \in validLogLevels
                 /\ \A key \in EnvKeys :
                        fieldOf(cfg'[1], key) =
                            IF key \notin DOMAIN env \/ env[key] = ""
                            THEN EnvDefault(key) ELSE env[key]
                 /\ ~(IsDevelopment(cfg'[1]) /\ IsProduction(cfg'[1])) ]_vars

\* Load has returned a config while ENVIRONMENT is unset, LOG_LEVEL and
\* SERVER_PORT are set but empty, and DB_USER has a value.
C30_Witness ==
    /\ cfgOp = "Load"
    /\ cfg # << >>
    /\ "ENVIRONMENT" \notin DOMAIN env
    /\ "LOG_LEVEL" \in DOMAIN env /\ env["LOG_LEVEL"] = ""
    /\ "SERVER_PORT" \in DOMAIN env /\ env["SERVER_PORT"] = ""
    /\ "DB_USER" \in DOMAIN env /\ env["DB_USER"] = "testuser"
    /\ cfg[1].Server.Environment = "dev"
    /\ cfg[1].Log.Level = "info"


\* The contexts of the requests served so far.
Served == {exchanges[i] : i \in DOMAIN exchanges}

\* The route handler was entered.
HandlerRan(c) == \E i \in DOMAIN c.trace : c.trace[i] = "handler"

\* The response carries the header with this value.
HasHeader(c, name, value) == name \in DOMAIN c.headers /\ c.headers[name] = value

\* The allow-list is not empty and does not start with "*".
ListedOrigins == Len(cors.AllowOrigins) > 0 /\ cors.AllowOrigins[1] # "*"

\* The origin is one of the allow-list.
InList(origin) == \E i \in DOMAIN cors.AllowOrigins : cors.AllowOrigins[i] = origin

\* The request was refused by the origin check.
Refused(c) == c.status = StatusForbidden /\ IsAborted(c) /\ ~HandlerRan(c)

\* C25 as stated: with an allow-list whose first entry is not "*", a request
\* with a non-empty Origin outside the list is aborted with 403 and the handler
\* never runs, a request whose Origin is in the list reaches the handler with
\* Access-Control-Allow-Origin equal to that origin, and a request without an
\* Origin always reaches the handler; with first entry "*" every request passes
\* with Access-Control-Allow-Origin "*".
C25_OriginCheck ==
    \A c \in Served :
        /\ ListedOrigins =>
             /\ (c.origin # "" /\ ~InList(c.origin)) => Refused(c)
             /\ InList(c.origin) =>
                    HandlerRan(c) /\ HasHeader(c, "Access-Control-Allow-Origin", c.origin)
             /\ c.origin = "" => HandlerRan(c)
        /\ (Len(cors.AllowOrigins) > 0 /\ cors.AllowOrigins[1] = "*") =>
             ~Refused(c) /\ HasHeader(c, "Access-Control-Allow-Origin", "*")

\* C25, amended: as above, where a request that passes the check reaches the
\* handler unless its method is OPTIONS; an OPTIONS request whose Origin is in
\* the list still carries Access-Control-Allow-Origin equal to that origin and
\* is not refused.
C25_OriginCheckExceptPreflight ==
    \A c \in Served :
        /\ ListedOrigins =>
             /\ (c.origin # "" /\ ~InList(c.origin)) => Refused(c)
             /\ InList(c.origin) =>
                    /\ c.method # "OPTIONS" => HandlerRan(c)
                    /\ ~Refused(c)
                    /\ HasHeader(c, "Access-Control-Allow-Origin", c.origin)
             /\ c.origin = "" => ~Refused(c) /\ (c.method # "OPTIONS" => HandlerRan(c))
        /\ (Len(cors.AllowOrigins) > 0 /\ cors.AllowOrigins[1] = "*") =>
             ~Refused(c) /\ HasHeader(c, "Access-Control-Allow-Origin", "*")

\* A GET whose Origin is the second entry of the allow-list reached the
\* handler and carries that origin.
C25_Witness ==
    /\ ListedOrigins
    /\ \E c \in Served :
           /\ c.method = "GET"
           /\ Len(cors.AllowOrigins) > 1 /\ c.origin = cors.AllowOrigins[2]
           /\ HandlerRan(c)
           /\ HasHeader(c, "Access-Control-Allow-Origin", c.origin)

\* C26: an OPTIONS request that passes the origin check is answered 204 with
\* the Access-Control-Allow-Methods and Access-Control-Allow-Headers headers
\* and never reaches the handler; an OPTIONS request with a disallowed Origin
\* is answered 403.
C26_Preflight ==
    \A c \in Served :
        c.method = "OPTIONS" =>
            LET disallowed == /\ Len(cors.AllowOrigins) > 0
                              /\ cors.AllowOrigins[1] # "*"
                              /\ ~InList(c.origin)
                              /\ c.origin # ""
            IN  /\ ~disallowed =>
                     /\ c.status = StatusNoContent
                     /\ c.written
                     /\ c.body = << >>
                     /\ HasHeader(c, "Access-Control-Allow-Methods",
                                  "GET, POST, PUT, PATCH, DELETE, OPTIONS")
                     /\ HasHeader(c, "Access-Control-Allow-Headers",
                                  "Origin, Content-Type, Accept, Authorization, X-Request-ID")
                     /\ ~HandlerRan(c)
                /\ disallowed => c.status = StatusForbidden /\ ~HandlerRan(c)

\* A preflight with a listed Origin was answered 204 although the route's
\* handler would have panicked.
C26_Witness ==
    /\ ListedOrigins
    /\ \E c \in Served :
           /\ c.method = "OPTIONS"
           /\ InList(c.origin)
           /\ c.behaviour = "panic_string"
           /\ c.status = StatusNoContent

\* The code field of the only JSON document of the response.
ErrorCodeOf(c) == IF Len(c.body) = 1 /\ c.body[1].error # << >> THEN c.body[1].error[1].code ELSE ""

\* C27: when the handler returned with errors recorded, the response is built
\* from the last of them, all of them being recorded by then: an *AppError
\* gives its own StatusCode and Code (NotFound: 404 NOT_FOUND), any other
\* error 500 INTERNAL_ERROR; when none was recorded the response is the
\* handler's own.
C27_LastErrorDecides ==
    \A c \in Served :
        (HandlerRan(c) /\ c.behaviour \notin {"panic_string", "panic_error"}) =>
            LET own == RouteHandler(NewContext(c.method, c.origin, c.behaviour)) IN
            /\ c.errors = own.errors
            /\ c.errors # << >> =>
                 LET last == c.errors[Len(c.errors)] IN
                 /\ c.written /\ Len(c.body) = 1 /\ ~c.body[1].success
                 /\ last.isApp => c.status = last.StatusCode /\ ErrorCodeOf(c) = last.Code
                 /\ ~last.isApp => c.status = StatusInternalServerError
                                   /\ ErrorCodeOf(c) = ErrCodeInternal
            /\ c.behaviour = "app_error" =>
                 c.status = StatusNotFound /\ ErrorCodeOf(c) = ErrCodeNotFound
            /\ c.errors = << >> => c.status = own.status /\ c.body = own.body

\* A handler recorded a plain error and then a NotFound error, and the
\* response is 404 NOT_FOUND.
C27_Witness ==
    \E c \in Served :
        /\ c.behaviour = "error_then_app_error"
        /\ Len(c.errors) = 2
        /\ c.status = StatusNotFound
        /\ ErrorCodeOf(c) = ErrCodeNotFound

\* C28: a panic of the handler, with an error value or any other value, ends
\* in a written 500 INTERNAL_ERROR response with the chain aborted and no
\* panic left to reach the server; every request, also one after a panic, is
\* answered; without a panic the handler's response is the response.
C28_PanicBecomes500 ==
    \A i \in DOMAIN exchanges :
        LET c == exchanges[i] IN
        /\ c.written /\ c.panic = << >>
        /\ (HandlerRan(c) /\ c.behaviour \in {"panic_string", "panic_error"}) =>
             /\ c.status = StatusInternalServerError
             /\ Len(c.body) = 1
             /\ ErrorCodeOf(c) = ErrCodeInternal
             /\ IsAborted(c)
        /\ (HandlerRan(c) /\ c.behaviour = "respond") =>
             LET own == RouteHandler(NewContext(c.method, c.origin, c.behaviour)) IN
             /\ c.status = own.status /\ c.body = own.body
             /\ ~IsAborted(c)

\* A handler panicked with a string, the request was answered 500, and the
\* next request was answered by its handler.
C28_Witness ==
    /\ Len(exchanges) >= 2
    /\ exchanges[1].behaviour = "panic_string"
    /\ exchanges[1].status = StatusInternalServerError
    /\ exchanges[2].behaviour = "respond"
    /\ exchanges[2].status = StatusOK
    /\ HandlerRan(exchanges[2])


\* C31: in every state reachable from NewTrip through Start, Complete and
\* Cancel the status and the timestamps agree: pending has no StartedAt,
\* CompletedAt or CancelledAt; in_progress has StartedAt and neither of the
\* others; completed has StartedAt and CompletedAt and no CancelledAt;
\* cancelled has CancelledAt and no CompletedAt.
C31_StatusTimestampsAgree ==
    /\ trip.Status = TripStatusPending =>
           trip.StartedAt = NoTime /\ trip.CompletedAt = NoTime /\ trip.CancelledAt = NoTime
    /\ trip.Status = TripStatusInProgress =>
           trip.StartedAt # NoTime /\ trip.CompletedAt = NoTime /\ trip.CancelledAt = NoTime
    /\ trip.Status = TripStatusCompleted =>
           trip.StartedAt # NoTime /\ trip.CompletedAt # NoTime /\ trip.CancelledAt = NoTime
    /\ trip.Status = TripStatusCancelled =>
           trip.CancelledAt # NoTime /\ trip.CompletedAt = NoTime

\* A started trip was cancelled and Complete was then refused on it.
C31_Witness ==
    /\ trip.Status = TripStatusCancelled
    /\ trip.StartedAt # NoTime
    /\ trip.CancelledAt # NoTime
    /\ lastOp = "Complete"
    /\ lastErr # "nil"

\* C32: once a successful Start has set StartedAt, StartedBy and
\* ActualStartLocation no later call changes them, and once a successful
\* Complete has set CompletedAt and ActualEndLocation no later call changes
\* them.
C32_RecordWriteOnce ==
    [][ /\ trip.StartedAt # NoTime =>
             /\ trip'.StartedAt = trip.StartedAt
             /\ trip'.StartedBy = trip.StartedBy
             /\ trip'.ActualStartLocation = trip.ActualStartLocation
        /\ trip.CompletedAt # NoTime =>
             /\ trip'.CompletedAt = trip.CompletedAt
             /\ trip'.ActualEndLocation = trip.ActualEndLocation ]_vars

\* A started trip was cancelled, and a Start by someone else from another
\* place was refused at a later clock reading and left the record alone.
C32_Witness ==
    /\ trip.Status = TripStatusCancelled
    /\ trip.StartedAt # NoTime
    /\ lastOp = "Start"
    /\ lastErr # "nil"
    /\ lastArgs.startedBy # trip.StartedBy
    /\ lastArgs.location # trip.ActualStartLocation
    /\ now > trip.StartedAt

\* C33: a Start, Complete or Cancel call, refused or not, leaves ScheduleID,
\* Date, VehicleID, AssignedDriverID, AssignedAttendantID and the
\* TripPassengers collection as they were.
C33_LifecycleKeepsIdentityAndRoster ==
    [][ lastOp' \in {"Start", "Complete", "Cancel"} =>
            /\ trip'.ScheduleID = trip.ScheduleID
            /\ trip'.Date = trip.Date
            /\ trip'.VehicleID = trip.VehicleID
            /\ trip'.AssignedDriverID = trip.AssignedDriverID
            /\ trip'.AssignedAttendantID = trip.AssignedAttendantID
            /\ trip'.TripPassengers = trip.TripPassengers ]_vars

\* A trip with a boarded passenger on its roster was completed.
C33_Witness ==
    /\ lastOp = "Complete"
    /\ lastErr = "nil"
    /\ trip.Status = TripStatusCompleted
    /\ Len(trip.TripPassengers) = NumPassengers
    /\ \E i \in DOMAIN trip.TripPassengers : trip.TripPassengers[i].IsBoarded

\* C34: after any sequence of BoardPassenger, AlightPassenger and MarkNoShow
\* from NewTripPassenger, IsBoarded implies BoardedAt is set, IsAlighted holds
\* exactly when AlightedAt is set, and GetBoardingDuration is 0 unless both
\* BoardedAt and AlightedAt are set.
C34_FlagsAndTimestampsAgree ==
    /\ \A i \in DOMAIN trip.TripPassengers :
           LET tp == trip.TripPassengers[i] IN
           /\ tp.IsBoarded => tp.BoardedAt # NoTime
           /\ tp.IsAlighted <=> tp.AlightedAt # NoTime
           /\ (tp.BoardedAt = NoTime \/ tp.AlightedAt = NoTime) => TPGetBoardingDuration(tp) = 0
    /\ (lastOp = "GetBoardingDuration" /\ duration # 0) =>
           LET tp == trip.TripPassengers[lastArgs.passenger] IN
           tp.BoardedAt # NoTime /\ tp.AlightedAt # NoTime

\* GetBoardingDuration was asked of a passenger who alighted without ever
\* boarding, and was 0.
C34_Witness ==
    /\ lastOp = "GetBoardingDuration"
    /\ duration = 0
    /\ LET tp == trip.TripPassengers[lastArgs.passenger] IN
       /\ tp.IsAlighted
       /\ tp.AlightedAt # NoTime
       /\ tp.BoardedAt = NoTime


\* C35: while a schedule is soft-deleted or inactive, IsActiveOnDate is false
\* for every date, whatever SetActive, SetInactive, UpdateDaysOfWeek,
\* SetValidPeriod and ClearValidPeriod calls were made; no setter removes the
\* soft-delete mark, and an inactive schedule stays inactive until SetActive.
C35_NeverInForceWhileDeletedOrInactive ==
    /\ [] ( (sched.DeletedAt # NoTime \/ sched.Status = ScheduleStatusInactive) =>
                /\ \A date \in Instants : ~IsActiveOnDate(sched, date)
                /\ qDate # NoTime => ~qResult )
    /\ [][ /\ sched.DeletedAt # NoTime => sched'.DeletedAt = sched.DeletedAt
           /\ (sched.Status = ScheduleStatusInactive /\ sched'.Status # ScheduleStatusInactive) =>
                  sched' = ScheduleSetActive(sched, now) ]_vars

\* A soft-deleted schedule with status active, no validity window and
\* recurrence 6, 7 was asked about a Sunday and answered false.
C35_Witness ==
    /\ sched.DeletedAt # NoTime
    /\ sched.Status = ScheduleStatusActive
    /\ sched.ValidFrom = NoTime /\ sched.ValidTo = NoTime
    /\ sched.DaysOfWeek = <<6, 7>>
    /\ qDate # NoTime
    /\ IsoWeekday(qDate) = 7
    /\ ~qResult

\* C36: a call of Schedule.IsActiveOnDate or DriverAssignment.IsActiveOnDate
\* returns a boolean and no error, leaves every field of the schedule and of
\* the assignment (UpdatedAt included) as it was, and its result is decided
\* by the entity and the date alone, so it is the same at every repetition.
C36_QueriesArePure ==
    [][ /\ sched' = sched
        /\ da' = da
        /\ qResult' \in BOOLEAN
        /\ aResult' \in BOOLEAN
        /\ aErr' = "nil"
        /\ qDate' # NoTime => (qResult' <=> IsActiveOnDate(sched, qDate'))
        /\ aOp' = "IsActiveOnDate" => (aResult' <=> AssignmentIsActiveOnDate(da, aArg'))
        /\ (qDate # NoTime /\ qDate' = qDate) => qResult' = qResult
        /\ (aOp = "IsActiveOnDate" /\ aArg' = aArg) => aResult' = aResult ]_vars

\* Both methods have answered true, the schedule and the assignment still
\* carrying the UpdatedAt of their construction.
C36_Witness ==
    /\ qDate # NoTime /\ qResult
    /\ aOp = "IsActiveOnDate" /\ aResult
    /\ qDate # aArg
    /\ sched.UpdatedAt = sched.CreatedAt
    /\ da.UpdatedAt = da.CreatedAt


\* C37: when a generation run has returned, every schedule it was given is
\* accounted for exactly once: it is either in created, with its one trip, or
\* in skipped with a reason, not in both and not in neither.
C37_EveryScheduleAccountedOnce ==
    \A p \in Procs :
        pc[p] = "done" =>
            \A id \in ListedIDs(runList[p]) :
                LET created == id \in runCreated[p] /\ Cardinality(TripsFor(id, runDate[p])) = 1
                    skipped == \E k \in 1 .. Len(runSkipped[p]) :
                                   runSkipped[p][k][1] = id /\ runSkipped[p][k][2] # ""
                IN  created # skipped


====
